---------------------------- MODULE Spec2Model ----------------------------
(***************************************************************************)
(* Model of the Spotnere admin backend (src/backend/main.py): the store    *)
(* tables the handlers read and write, and the handlers themselves.        *)
(*                                                                         *)
(* Conventions                                                             *)
(*   - a JSON value of a row is a record [k, v]: k = "null" (absent or     *)
(*     None), "num" (a number, v) or "text" (a non-empty non-numeric       *)
(*     string);                                                            *)
(*   - money is counted in thousandths of the currency unit, so that       *)
(*     round(x, 2) is a real rounding (to a multiple of 10); the amounts   *)
(*     the store holds are currency amounts, whole hundredths, as          *)
(*     places.avg_price NUMERIC(10,2) is; a request payload may carry any  *)
(*     number;                                                             *)
(*   - an instant is a number of hours since 1970-01-01T00:00; a stored    *)
(*     timestamp is [k, h, aware, off]: the wall-clock hours h it spells,  *)
(*     and the UTC offset (hours) when it carries one;                     *)
(*   - ids are strings, NullId stands for None.                            *)
(***************************************************************************)
EXTENDS Integers, Sequences, FiniteSets, TLC

VARIABLES
    clock,      \* the service time, datetime.utcnow(), in hours
    bookings,   \* table bookings, in the order the store returns it
    vendors,    \* table vendors
    places,     \* table places
    users,      \* table users
    storage,    \* object storage: the place ids whose banner file exists
    identities, \* identity provider: the e-mails signed up
    admins,     \* table admins
    gallery_images, \* table gallery_images
    reviews,    \* table reviews
    req,        \* the aggregation request in flight, between its selects
    resp        \* the response of the request just served (NoResp once
                \* the store has changed since)

vars == <<clock, bookings, vendors, places, users,
          storage, identities, admins, gallery_images, reviews, req, resp>>

\* what the reporting endpoints and the writers of their tables leave alone
side == <<storage, identities, admins, gallery_images, reviews, req>>

\* no request in flight
NoReq == [pc |-> "idle", vendors |-> <<>>, places |-> <<>>, users |-> <<>>, seen |-> {}]

InitSide ==
    /\ storage = {}
    /\ identities = {}
    /\ admins = <<>>
    /\ gallery_images = <<>>
    /\ reviews = <<>>
    /\ req = NoReq

(***************************************************************************)
(* Bounds of the model.                                                    *)
(***************************************************************************)
MaxBookings == 2
MaxVendors == 2
MaxUserBookings == 5
MaxUsers == 2

(***************************************************************************)
(* Program constants.                                                      *)
(***************************************************************************)
DAILY_BACK == 14
WEEKLY_BACK == 12
WEEKLY_LAST == 11
MONTHLY_BACK_DAYS == 365
MONTHLY_LAST == 11
NEW_DAYS == 30
VIP_MIN == 5
RATING_MAX == 9900
RATING_STEP == 100
PRICE_STEP == 10
REGULAR_MIN == 1

(***************************************************************************)
(* JSON values and Python truthiness.                                      *)
(***************************************************************************)
Null == [k |-> "null", v |-> 0]

Num(n) == [k |-> "num", v |-> n]

Text == [k |-> "text", v |-> 0]

NullId == "None"

\* bool(x) of a JSON scalar: None, 0 and 0.0 are falsy.
Truthy(x) == (x.k = "text") \/ (x.k = "num" /\ x.v # 0)

\* float(x) under try/except (TypeError, ValueError): the fallback on failure.
FloatOr(x, dflt) == IF x.k = "num" THEN x.v ELSE dflt

\* round(x, 2) of an amount in thousandths: the nearest multiple of 10,
\* a tie going to the even hundredth.
Round2(x) ==
    LET q == x \div 10
        r == x % 10
    IN  IF r < 5 THEN 10 * q
        ELSE IF r > 5 THEN 10 * (q + 1)
        ELSE IF q % 2 = 0 THEN 10 * q ELSE 10 * (q + 1)

RECURSIVE SumSeq(_)
SumSeq(s) == IF s = <<>> THEN 0 ELSE Head(s) + SumSeq(Tail(s))

(***************************************************************************)
(* The calendar of datetime: proleptic Gregorian dates from day numbers    *)
(* (day 0 = 1970-01-01, a Thursday).                                       *)
(***************************************************************************)
DaysFromCivil(y, m, d) ==
    LET y2  == IF m <= 2 THEN y - 1 ELSE y
        era == y2 \div 400
        yoe == y2 - era * 400
        mp  == (m + 9) % 12
        doy == (153 * mp + 2) \div 5 + d - 1
        doe == yoe * 365 + yoe \div 4 - yoe \div 100 + doy
    IN  era * 146097 + doe - 719468

CivilFromDays(z0) ==
    LET z   == z0 + 719468
        era == z \div 146097
        doe == z - era * 146097
        yoe == (doe - doe \div 1460 + doe \div 36524 - doe \div 146096) \div 365
        doy == doe - (365 * yoe + yoe \div 4 - yoe \div 100)
        mp  == (5 * doy + 2) \div 153
        d   == doy - (153 * mp + 2) \div 5 + 1
        m   == IF mp < 10 THEN mp + 3 ELSE mp - 9
        y   == yoe + era * 400 + (IF m <= 2 THEN 1 ELSE 0)
    IN  [year |-> y, month |-> m, day |-> d]

\* datetime.weekday(): Monday is 0.
Weekday(z) == (z + 3) % 7

\* datetime.isocalendar()[1]: the ISO week number of the day.
IsoWeek(z) ==
    LET thursday == z - Weekday(z) + 3
        y        == CivilFromDays(thursday).year
    IN  (thursday - DaysFromCivil(y, 1, 1)) \div 7 + 1

DayOf(h) == h \div 24

\* replace(hour=0, minute=0, second=0, microsecond=0)
Midnight(h) == 24 * DayOf(h)

\* strftime("%Y-%m-%d")
DateKey(h) == LET c == CivilFromDays(DayOf(h)) IN <<c.year, c.month, c.day>>

\* strftime("%Y-%m")
MonthKey(h) == LET c == CivilFromDays(DayOf(h)) IN <<c.year, c.month>>

(***************************************************************************)
(* Stored timestamps and booking rows.                                     *)
(***************************************************************************)
NullTs == [k |-> "null", h |-> 0, aware |-> FALSE, off |-> 0]

\* a non-empty string datetime.fromisoformat rejects
BadTs == [k |-> "text", h |-> 0, aware |-> FALSE, off |-> 0]

\* "2024-03-15T10:00:00"
Iso(h) == [k |-> "iso", h |-> h, aware |-> FALSE, off |-> 0]

\* "2024-03-15T10:00:00+02:00" (or a trailing Z, off = 0)
IsoTz(h, off) == [k |-> "iso", h |-> h, aware |-> TRUE, off |-> off]

Booking(pid, uid, paid, payable, ts1, ts2) ==
    [place_id |-> pid, user_id |-> uid,
     amount_paid |-> paid, amount_payable_to_vendor |-> payable,
     booking_date_and_time |-> ts1, booking_date_time |-> ts2]

(***************************************************************************)
(* GET /api/bookings/sales-analytics                                       *)
(***************************************************************************)
NoDate == [ok |-> FALSE, h |-> 0, aware |-> FALSE, off |-> 0]

get_date(row) ==
    LET dt == IF row.booking_date_and_time.k # "null"
              THEN row.booking_date_and_time ELSE row.booking_date_time
    IN  IF dt.k = "iso"
        THEN [ok |-> TRUE, h |-> dt.h, aware |-> dt.aware, off |-> dt.off]
        ELSE NoDate

\* dt.astimezone(timezone.utc).replace(tzinfo=None) when dt.tzinfo
ToNaiveUtc(dt) == IF dt.aware THEN dt.h - dt.off ELSE dt.h

\* datetime.min and datetime.max, to the hour
MinInstant == 24 * DaysFromCivil(1, 1, 1)

MaxInstant == 24 * DaysFromCivil(9999, 12, 31) + 23

\* astimezone raises OverflowError when the UTC instant is no datetime
Overflows(row) ==
    /\ get_date(row).ok
    /\ \/ ToNaiveUtc(get_date(row)) < MinInstant
       \/ ToNaiveUtc(get_date(row)) > MaxInstant

get_amount(row) ==
    LET amt == IF Truthy(row.amount_paid)
               THEN row.amount_paid ELSE row.amount_payable_to_vendor
    IN  FloatOr(amt, 0)

\* the three branches of the period selector: anything else is monthly
Branch(period) ==
    IF period = "daily" THEN "daily"
    ELSE IF period = "weekly" THEN "weekly" ELSE "monthly"

\* the key of the bucket a booking at naive instant dt is added to
BucketKey(period, dt) ==
    IF Branch(period) = "daily" THEN DateKey(dt)
    ELSE IF Branch(period) = "weekly" THEN DateKey(dt - 24 * Weekday(DayOf(dt)))
    ELSE MonthKey(dt)

\* (mutant) the daily window one day short
WindowStart_short(period, now) ==
    IF Branch(period) = "daily" THEN Midnight(now - 24 * (DAILY_BACK - 1))
    ELSE IF Branch(period) = "weekly" THEN Midnight(now - 24 * 7 * WEEKLY_BACK)
    ELSE Midnight(now - 24 * MONTHLY_BACK_DAYS)

\* start: bookings before it are skipped
WindowStart(period, now) ==
    IF Branch(period) = "daily" THEN Midnight(now - 24 * DAILY_BACK)
    ELSE IF Branch(period) = "weekly" THEN Midnight(now - 24 * 7 * WEEKLY_BACK)
    ELSE Midnight(now - 24 * MONTHLY_BACK_DAYS)

\* whether the loop body reaches the accumulation for this row
Counted(period, now, row) ==
    /\ get_date(row).ok
    /\ ToNaiveUtc(get_date(row)) >= WindowStart(period, now)

NoData == [sales |-> 0, count |-> 0]

AddTo(buckets, key, amt) ==
    IF key \in DOMAIN buckets
    THEN [buckets EXCEPT ![key] = [sales |-> @.sales + amt, count |-> @.count + 1]]
    ELSE buckets @@ (key :> [sales |-> amt, count |-> 1])

\* the loop over the rows: buckets after rows[i..]
RECURSIVE Accumulate(_, _, _, _, _)
Accumulate(period, now, rows, i, buckets) ==
    IF i > Len(rows) THEN buckets
    ELSE IF ~Counted(period, now, rows[i])
         THEN Accumulate(period, now, rows, i + 1, buckets)
         ELSE Accumulate(period, now, rows, i + 1,
                         AddTo(buckets,
                               BucketKey(period, ToNaiveUtc(get_date(rows[i]))),
                               get_amount(rows[i])))

Buckets(period, now, rows) == Accumulate(period, now, rows, 1, <<>>)

BucketGet(buckets, key) == IF key \in DOMAIN buckets THEN buckets[key] ELSE NoData

\* (mutant) range(14, 0, -1), range(11, 0, -1): today's bucket is lost
NumBuckets_exclusive(period) ==
    IF Branch(period) = "daily" THEN DAILY_BACK
    ELSE IF Branch(period) = "weekly" THEN WEEKLY_LAST
    ELSE MONTHLY_LAST

\* number of emitted buckets: range(14, -1, -1), range(11, -1, -1)
NumBuckets(period) ==
    IF Branch(period) = "daily" THEN DAILY_BACK + 1
    ELSE IF Branch(period) = "weekly" THEN WEEKLY_LAST + 1
    ELSE MONTHLY_LAST + 1

\* (mutant) the buckets emitted newest first
EmitKey_reversed(period, now, n) ==
    LET i == n - 1
    IN  IF Branch(period) = "daily" THEN DateKey(now - 24 * i)
        ELSE IF Branch(period) = "weekly"
        THEN LET w == now - 24 * 7 * i
             IN  DateKey(w - 24 * Weekday(DayOf(w)))
        ELSE LET c == CivilFromDays(DayOf(now))
                 total_months == c.year * 12 + c.month - 1 - i
             IN  <<total_months \div 12, (total_months % 12) + 1>>

\* the key looked up for the n-th emitted bucket (n = 1 is the oldest)
EmitKey(period, now, n) ==
    LET i == NumBuckets(period) - n
    IN  IF Branch(period) = "daily" THEN DateKey(now - 24 * i)
        ELSE IF Branch(period) = "weekly"
        THEN LET w == now - 24 * 7 * i
             IN  DateKey(w - 24 * Weekday(DayOf(w)))
        ELSE LET c == CivilFromDays(DayOf(now))
                 total_months == c.year * 12 + c.month - 1 - i
             IN  <<total_months \div 12, (total_months % 12) + 1>>

\* the label of the n-th emitted bucket: <<month, day>> for "%b %d",
\* <<week>> for "W<week>", <<month>> for the month's abbreviation
EmitLabel(period, now, n) ==
    LET key == EmitKey(period, now, n)
    IN  IF Branch(period) = "daily" THEN <<key[2], key[3]>>
        ELSE IF Branch(period) = "weekly"
        THEN <<IsoWeek(DaysFromCivil(key[1], key[2], key[3]))>>
        ELSE <<key[2]>>

Emit(period, now, buckets) ==
    [n \in 1..NumBuckets(period) |->
        LET data == BucketGet(buckets, EmitKey(period, now, n))
        IN  [label |-> EmitLabel(period, now, n),
             sales |-> Round2(data.sales),
             count |-> data.count]]

\* (mutant) the months of an empty collection counted from next month
_empty_analytics_nextmonth(period, now) ==
    IF period = "daily"
    THEN [n \in 1..(DAILY_BACK + 1) |->
            LET c == CivilFromDays(DayOf(now - 24 * (DAILY_BACK + 1 - n)))
            IN  [label |-> <<c.month, c.day>>, sales |-> 0, count |-> 0]]
    ELSE IF period = "weekly"
    THEN [n \in 1..(WEEKLY_LAST + 1) |->
            [label |-> <<IsoWeek(DayOf(now - 24 * 7 * (WEEKLY_LAST + 1 - n)))>>,
             sales |-> 0, count |-> 0]]
    ELSE [n \in 1..(MONTHLY_LAST + 1) |->
            LET c == CivilFromDays(DayOf(now))
                i == MONTHLY_LAST + 1 - n
            IN  [label |-> <<((c.month - i + 12) % 12) + 1>>,
                 sales |-> 0, count |-> 0]]

\* (mutant) the empty list for an empty collection
_empty_analytics_none(period, now) == <<>>

_empty_analytics(period, now) ==
    IF period = "daily"
    THEN [n \in 1..(DAILY_BACK + 1) |->
            LET c == CivilFromDays(DayOf(now - 24 * (DAILY_BACK + 1 - n)))
            IN  [label |-> <<c.month, c.day>>, sales |-> 0, count |-> 0]]
    ELSE IF period = "weekly"
    THEN [n \in 1..(WEEKLY_LAST + 1) |->
            [label |-> <<IsoWeek(DayOf(now - 24 * 7 * (WEEKLY_LAST + 1 - n)))>>,
             sales |-> 0, count |-> 0]]
    ELSE [n \in 1..(MONTHLY_LAST + 1) |->
            LET c == CivilFromDays(DayOf(now))
                i == MONTHLY_LAST + 1 - n
            IN  [label |-> <<((c.month - 1 - i + 12) % 12) + 1>>,
                 sales |-> 0, count |-> 0]]

\* the handler's result for the rows fetched, when the loop raises nothing
get_bookings_sales_analytics(period, now, rows) ==
    IF rows = <<>> THEN _empty_analytics(period, now)
    ELSE Emit(period, now, Buckets(period, now, rows))

\* (mutant) a row without a date raises
SalesRaises_nodate(rows) ==
    \E i \in 1..Len(rows) : Overflows(rows[i]) \/ ~get_date(rows[i]).ok

\* an exception of the loop reaches the handler's except clause
SalesRaises(rows) == \E i \in 1..Len(rows) : Overflows(rows[i])

Periods == {"daily", "weekly", "monthly", "yearly"}

NoResp == [op |-> "none", status |-> 0]

FetchOutcomes == {"ok", "fallback", "error"}

\* the collaborator calls of a read request that raised: with "fallback" the
\* first select, which the handler retries in another form; with "error" a
\* call whose exception reaches the handler's except clause
FetchRaised(fetch) ==
    IF fetch = "ok" THEN {} ELSE IF fetch = "fallback" THEN {"select"} ELSE {"fetch"}

\* (mutant) a 500 whose detail carries no message
FetchCause_silent(fetch) == "none"

\* the call whose message str(e) the detail of the 500 carries
FetchCause(fetch) == IF fetch = "error" THEN "fetch" ELSE "none"

\* One request. fetch: "ok", the select of the four columns succeeds;
\* "fallback", it raises and select("*") succeeds; "error", both raise and
\* the handler answers 500, as it does when the loop raises.
GetBookingsSalesAnalytics(period, fetch) ==
    /\ resp' = IF fetch = "error" \/ SalesRaises(bookings)
               THEN [op |-> "sales-analytics", status |-> 500, period |-> period,
                     raised |-> FetchRaised(fetch), cause |-> FetchCause(fetch),
                     now |-> clock, input |-> <<>>, rows |-> <<>>]
               ELSE [op |-> "sales-analytics", status |-> 200, period |-> period,
                     raised |-> FetchRaised(fetch), cause |-> "none",
                     now |-> clock, input |-> bookings,
                     rows |-> get_bookings_sales_analytics(period, clock, bookings)]
    /\ UNCHANGED <<side, clock, bookings, vendors, places, users>>

(***************************************************************************)
(* The store as the analytics sees it: service times, and the bookings     *)
(* other clients insert, dated relative to the service time.               *)
(***************************************************************************)
ServiceTimes ==
    { 24 * DaysFromCivil(2024, 3, 15) + 10,
      24 * DaysFromCivil(2025, 1, 1) }

SalesTimestamps(now) ==
    { Iso(now),
      Iso(now - 24 * DAILY_BACK),
      Iso(now - 24 * (DAILY_BACK + 1)),
      IsoTz(Midnight(now - 24 * DAILY_BACK) - 2, -3),
      Iso(now - 24 * 7 * WEEKLY_BACK),
      Iso(now - 24 * MONTHLY_BACK_DAYS),
      Iso(now + 24),
      IsoTz(MinInstant, 5),
      BadTs,
      NullTs }

SalesBookings(now) ==
    { Booking(NullId, NullId, Num(5000), Null, ts, NullTs) : ts \in SalesTimestamps(now) }
    \cup { Booking(NullId, NullId, Num(1230), Null, NullTs, Iso(now - 24)),
           Booking(NullId, NullId, Num(0), Num(7000), Iso(now - 24), NullTs),
           Booking(NullId, NullId, Text, Null, Iso(now - 24), NullTs) }

InsertSalesBooking(b) ==
    /\ Len(bookings) < MaxBookings
    /\ bookings' = Append(bookings, b)
    /\ resp' = NoResp
    /\ UNCHANGED <<side, clock, vendors, places, users>>

InitSales ==
    /\ clock \in ServiceTimes
    /\ bookings = <<>>
    /\ vendors = <<>>
    /\ places = <<>>
    /\ users = <<>>
    /\ resp = NoResp
    /\ InitSide

NextSales ==
    \/ \E b \in SalesBookings(clock) : InsertSalesBooking(b)
    \/ \E period \in Periods, fetch \in FetchOutcomes :
          GetBookingsSalesAnalytics(period, fetch)

SpecSales == InitSales /\ [][NextSales]_vars

(***************************************************************************)
(* Claims about the sales analytics (checked under SpecSales).             *)
(***************************************************************************)
SalesOk == resp.op = "sales-analytics" /\ resp.status = 200

\* the naive UTC day of row i of the request's input, when it parses
RowParses(i) == get_date(resp.input[i]).ok

RowDay(i) == DayOf(ToNaiveUtc(get_date(resp.input[i])))

SumCounts == SumSeq([n \in 1..Len(resp.rows) |-> resp.rows[n].count])

SumSales == SumSeq([n \in 1..Len(resp.rows) |-> resp.rows[n].sales])

\* C1: the list returned has 15 entries for daily and 12 for weekly and for
\* monthly, whatever the bookings and the service time.
C1_FixedLength ==
    SalesOk => Len(resp.rows) = (IF resp.period = "daily" THEN 15 ELSE 12)

C1_Witness ==
    /\ SalesOk
    /\ resp.period = "daily"
    /\ Len(resp.input) = 2
    /\ \E i \in 1..2 : ~RowParses(i)
    /\ \E i \in 1..2 : RowParses(i) /\ RowDay(i) > DayOf(resp.now)
    /\ Len(resp.rows) = 15

\* the rows of the input that pass the window filter of the loop
PassedFilter ==
    { i \in 1..Len(resp.input) : Counted(resp.period, resp.now, resp.input[i]) }

RECURSIVE SumAmounts(_)
SumAmounts(S) ==
    IF S = {} THEN 0
    ELSE LET i == CHOOSE x \in S : TRUE
         IN  get_amount(resp.input[i]) + SumAmounts(S \ {i})

\* C2: every booking that passes the window filter is counted in an emitted
\* bucket: the counts emitted add up to the number of bookings that passed,
\* and the sales emitted to their amounts.
C2_FilteredAreEmitted ==
    SalesOk =>
        /\ SumCounts = Cardinality(PassedFilter)
        /\ SumSales = SumAmounts(PassedFilter)

\* C3 as stated: the daily boundary is 15 days back from the service time; a
\* booking at that instant is counted in an emitted bucket, one a day older
\* is not.
C3_BoundaryFifteenBack ==
    (SalesOk /\ resp.period = "daily") =>
        SumCounts =
            Cardinality({ i \in 1..Len(resp.input) :
                            /\ RowParses(i)
                            /\ RowDay(i) >= DayOf(resp.now) - 15
                            /\ RowDay(i) <= DayOf(resp.now) })

\* C3 as amended: the daily boundary is the start of the day 14 days before
\* the service date. Bookings of that day make the oldest bucket, and only
\* the bookings of the 15 days ending with the service date are in a bucket:
\* one dated 15 days back is in none.
C3_BoundaryFourteenBack ==
    (SalesOk /\ resp.period = "daily") =>
        /\ resp.rows[1].count =
              Cardinality({ i \in 1..Len(resp.input) :
                              RowParses(i) /\ RowDay(i) = DayOf(resp.now) - 14 })
        /\ SumCounts =
              Cardinality({ i \in 1..Len(resp.input) :
                              /\ RowParses(i)
                              /\ RowDay(i) >= DayOf(resp.now) - 14
                              /\ RowDay(i) <= DayOf(resp.now) })

C3_Witness ==
    /\ SalesOk
    /\ resp.period = "daily"
    /\ \E i \in 1..Len(resp.input) :
          RowParses(i) /\ ToNaiveUtc(get_date(resp.input[i])) = resp.now - 24 * 14
    /\ \E i \in 1..Len(resp.input) :
          RowParses(i) /\ ToNaiveUtc(get_date(resp.input[i])) = resp.now - 24 * 15
    /\ resp.rows[1].count = 1
    /\ SumCounts = 1

MonthIndex(day) == LET c == CivilFromDays(day) IN c.year * 12 + c.month - 1

Today == DayOf(resp.now)

\* the rows of the request's input dated in the n-th unit of the window: the
\* n-th of the 15 days ending today, of the 12 weeks from Monday ending with
\* this week, of the 12 months ending with this month
InUnit(n) ==
    { i \in 1..Len(resp.input) :
        /\ RowParses(i)
        /\ IF resp.period = "daily" THEN RowDay(i) = Today - (15 - n)
           ELSE IF resp.period = "weekly"
           THEN LET monday == Today - Weekday(Today) - 7 * (12 - n)
                IN  RowDay(i) >= monday /\ RowDay(i) <= monday + 6
           ELSE MonthIndex(RowDay(i)) = MonthIndex(Today) - (12 - n) }

\* the label of that unit: month and day, ISO week number, month
UnitLabel(n) ==
    IF resp.period = "daily"
    THEN LET c == CivilFromDays(Today - (15 - n)) IN <<c.month, c.day>>
    ELSE IF resp.period = "weekly"
    THEN <<IsoWeek(Today - Weekday(Today) - 7 * (12 - n))>>
    ELSE <<((MonthIndex(Today) - (12 - n)) % 12) + 1>>

\* C15: the rows are the units of the window oldest first, without gaps and
\* ending with the service date, the current week, the current month; each
\* holds the bookings dated in its unit, and 0 and 0 when there are none.
C15_ChronologicalWindow ==
    (SalesOk /\ resp.period \in {"daily", "weekly", "monthly"}) =>
        \A n \in 1..Len(resp.rows) :
            /\ resp.rows[n].label = UnitLabel(n)
            /\ resp.rows[n].count = Cardinality(InUnit(n))
            /\ resp.rows[n].sales = SumAmounts(InUnit(n))

\* weekly: a booking of today in the last row, one of two weeks ago in the
\* tenth, none in between
C15_Witness ==
    /\ SalesOk
    /\ resp.period = "weekly"
    /\ Len(resp.rows) = 12
    /\ resp.rows[12].count = 1
    /\ resp.rows[11].count = 0
    /\ resp.rows[11].sales = 0
    /\ resp.rows[10].count = 1
    /\ resp.rows[10].sales = 5000

\* the amount of the first amount field present on row i of the input
FirstPresentAmount(i) ==
    IF resp.input[i].amount_paid.k # "null"
    THEN FloatOr(resp.input[i].amount_paid, 0)
    ELSE FloatOr(resp.input[i].amount_payable_to_vendor, 0)

RECURSIVE SumFirstPresent(_)
SumFirstPresent(S) ==
    IF S = {} THEN 0
    ELSE LET i == CHOOSE x \in S : TRUE
         IN  FirstPresentAmount(i) + SumFirstPresent(S \ {i})

\* C16: a booking adds to its bucket its amount_paid whenever that field is
\* present, the value 0 included, and its amount_payable_to_vendor only
\* when amount_paid is absent.
C16_FirstPresentAmount ==
    (SalesOk /\ resp.period \in {"daily", "weekly", "monthly"}) =>
        \A n \in 1..Len(resp.rows) :
            resp.rows[n].sales = SumFirstPresent(InUnit(n))

\* C18: for an empty bookings collection the list has 15 rows for daily
\* and 12 otherwise, each with sales 0 and count 0.
C18_EmptyCollection ==
    (SalesOk /\ resp.input = <<>>) =>
        /\ Len(resp.rows) = (IF resp.period = "daily" THEN 15 ELSE 12)
        /\ \A n \in 1..Len(resp.rows) :
              resp.rows[n].sales = 0 /\ resp.rows[n].count = 0

C18_Witness ==
    /\ SalesOk
    /\ resp.input = <<>>
    /\ bookings = <<>>
    /\ resp.period = "weekly"
    /\ Len(resp.rows) = 12
    /\ resp.rows[12].count = 0

\* the rows whose timestamp is present and parses
Dated(rows) == SelectSeq(rows, LAMBDA row : get_date(row).ok)

\* C19: the rows without a timestamp that parses change nothing: a list
\* returned is the list for the collection without them, their counts and
\* sales are in no row, and a request that fails without a failure of the
\* store fails also for the collection without them.
C19_UndatedSkipped ==
    /\ SalesOk =>
          /\ \A n \in 1..Len(resp.rows) :
                /\ resp.rows[n].count
                      = get_bookings_sales_analytics(resp.period, resp.now,
                                                     Dated(resp.input))[n].count
                /\ resp.rows[n].sales
                      = get_bookings_sales_analytics(resp.period, resp.now,
                                                     Dated(resp.input))[n].sales
                /\ resp.rows[n].label
                      = get_bookings_sales_analytics(resp.period, resp.now,
                                                     Dated(resp.input))[n].label
          /\ SumCounts <= Len(Dated(resp.input))
    /\ (resp.op = "sales-analytics" /\ resp.status = 500 /\ resp.cause = "none") =>
          \E i \in 1..Len(bookings) : get_date(bookings[i]).ok /\ Overflows(bookings[i])

\* a booking with an unparsable date next to one that is counted
C19_Witness ==
    /\ SalesOk
    /\ Len(resp.input) = 2
    /\ resp.input[1].booking_date_and_time = BadTs
    /\ resp.input[1].amount_paid = Num(5000)
    /\ get_date(resp.input[2]).ok
    /\ SumCounts = 1
    /\ SumSales = get_amount(resp.input[2])

(***************************************************************************)
(* GET /api/payouts                                                        *)
(***************************************************************************)
Vendor(id, pid, paid, full_name, business) ==
    [id |-> id, place_id |-> pid, paid_so_far |-> paid,
     vendor_full_name |-> full_name, business_name |-> business]

\* names are strings, "" standing for None as for the empty string;
\* visible is "true", "false" or "null"
PlaceRow(id, name, avg_price, rating, visible) ==
    [id |-> id, name |-> name, avg_price |-> avg_price,
     rating |-> rating, visible |-> visible, review_count |-> Null,
     created_at |-> NullTs, updated_at |-> NullTs]

Place(id, name, avg_price) == PlaceRow(id, name, avg_price, Null, "true")

\* {} of place_by_id.get(pid, {}): every .get of it is None
NoPlace == Place(NullId, "", Null)

Last(I) == CHOOSE i \in I : \A j \in I : j <= i

\* (mutant) no vendor found for any place
HasVendor_never(vs, pid) == FALSE

\* vendor_by_place: a later vendor of the same place replaces an earlier one
HasVendor(vs, pid) == pid # NullId /\ \E i \in 1..Len(vs) : vs[i].place_id = pid

vendor_by_place(vs, pid) == vs[Last({ i \in 1..Len(vs) : vs[i].place_id = pid })]

place_by_id(ps, pid) ==
    IF \E i \in 1..Len(ps) : ps[i].id = pid
    THEN ps[Last({ i \in 1..Len(ps) : ps[i].id = pid })]
    ELSE NoPlace

\* one booking added to place_stats (a list in the dict's insertion order)
StatsAdd(stats, b) ==
    LET pid == b.place_id
        amt == FloatOr(b.amount_payable_to_vendor, 0)
    IN  IF pid = NullId THEN stats
        ELSE IF \E j \in 1..Len(stats) : stats[j].pid = pid
        THEN [j \in 1..Len(stats) |->
                IF stats[j].pid = pid
                THEN [pid |-> pid, count |-> stats[j].count + 1,
                      total_amount |-> stats[j].total_amount + amt]
                ELSE stats[j]]
        ELSE Append(stats, [pid |-> pid, count |-> 1, total_amount |-> amt])

RECURSIVE place_stats(_, _, _)
place_stats(rows, i, stats) ==
    IF i > Len(rows) THEN stats
    ELSE place_stats(rows, i + 1, StatsAdd(stats, rows[i]))

\* (mutant) no fallback
Fallback_never(st, ps) == st

\* the fallback: avg_price * count when the amounts add up to zero
Fallback(st, ps) ==
    IF st.total_amount = 0 /\ st.count > 0
    THEN LET avg == place_by_id(ps, st.pid).avg_price
         IN  IF ~Truthy(avg) THEN [st EXCEPT !.total_amount = 0]
             ELSE IF avg.k = "num" THEN [st EXCEPT !.total_amount = avg.v * st.count]
             ELSE st
    ELSE st

\* (mutant) the balance taken the wrong way round
_vendor_payout_row_swapped(vendor, place, stats) ==
    LET total_amount == Round2(stats.total_amount)
        amount_paid  == Round2(IF Truthy(vendor.paid_so_far)
                               THEN vendor.paid_so_far.v ELSE 0)
    IN  [place_id |-> vendor.place_id,
         vendor_id |-> vendor.id,
         name |-> IF vendor.vendor_full_name # "" THEN vendor.vendor_full_name
                  ELSE IF vendor.business_name # "" THEN vendor.business_name
                  ELSE "-",
         place_name |-> IF place.name # "" THEN place.name ELSE "-",
         num_bookings |-> stats.count,
         total_amount |-> total_amount,
         amount_paid |-> amount_paid,
         balance |-> Round2(amount_paid - total_amount)]

\* "-" stands for the em dash of the source
_vendor_payout_row(vendor, place, stats) ==
    LET total_amount == Round2(stats.total_amount)
        amount_paid  == Round2(IF Truthy(vendor.paid_so_far)
                               THEN vendor.paid_so_far.v ELSE 0)
    IN  [place_id |-> vendor.place_id,
         vendor_id |-> vendor.id,
         name |-> IF vendor.vendor_full_name # "" THEN vendor.vendor_full_name
                  ELSE IF vendor.business_name # "" THEN vendor.business_name
                  ELSE "-",
         place_name |-> IF place.name # "" THEN place.name ELSE "-",
         num_bookings |-> stats.count,
         total_amount |-> total_amount,
         amount_paid |-> amount_paid,
         balance |-> Round2(total_amount - amount_paid)]

\* the first loop: one row per key of place_stats
BookedRows(vs, ps, stats) ==
    [j \in 1..Len(stats) |->
        LET pid == stats[j].pid
        IN  _vendor_payout_row(
                IF HasVendor(vs, pid) THEN vendor_by_place(vs, pid)
                ELSE Vendor(NullId, pid, Num(0), "", ""),
                place_by_id(ps, pid),
                Fallback(stats[j], ps))]

\* (mutant) the second loop left out
VendorOnlyRows_none(vs, ps, i, seen) == <<>>

\* the second loop: the vendors whose place is in no row yet
RECURSIVE VendorOnlyRows(_, _, _, _)
VendorOnlyRows(vs, ps, i, seen) ==
    IF i > Len(vs) THEN <<>>
    ELSE LET pid == vs[i].place_id
         IN  IF pid = NullId \/ pid \in seen
             THEN VendorOnlyRows(vs, ps, i + 1, seen)
             ELSE <<_vendor_payout_row(vs[i], place_by_id(ps, pid),
                                       [pid |-> pid, count |-> 0, total_amount |-> 0])>>
                  \o VendorOnlyRows(vs, ps, i + 1, seen \cup {pid})

get_payouts(vs, ps, rows) ==
    LET stats == place_stats(rows, 1, <<>>)
    IN  BookedRows(vs, ps, stats)
        \o VendorOnlyRows(vs, ps, 1, { stats[j].pid : j \in 1..Len(stats) })

\* what the select of the bookings returns: place_id and the amount, or,
\* when that select raises, place_id alone
FetchedForPayouts(rows, fetch) ==
    IF fetch = "ok" THEN rows
    ELSE [i \in 1..Len(rows) |-> [rows[i] EXCEPT !.amount_payable_to_vendor = Null]]

\* One request. fetch = "error": a select of vendors or of places raises, or
\* both selects of bookings do.
GetPayouts(fetch) ==
    /\ resp' = IF fetch = "error"
               THEN [op |-> "payouts", status |-> 500, vendors |-> <<>>,
                     raised |-> FetchRaised(fetch), cause |-> FetchCause(fetch),
                     places |-> <<>>, input |-> <<>>, rows |-> <<>>]
               ELSE [op |-> "payouts", status |-> 200, vendors |-> vendors,
                     raised |-> FetchRaised(fetch), cause |-> "none",
                     places |-> places,
                     input |-> FetchedForPayouts(bookings, fetch),
                     rows |-> get_payouts(vendors, places,
                                          FetchedForPayouts(bookings, fetch))]
    /\ UNCHANGED <<side, clock, bookings, vendors, places, users>>

(***************************************************************************)
(* The store as the payouts see it.                                        *)
(***************************************************************************)
VendorIds == <<"v1", "v2", "v3", "v4">>

\* place id, paid_so_far, vendor_full_name, business_name
VendorShapes ==
    { <<"p1", Num(2000), "Ann", "Acme">>,
      <<"p2", Null, "", "">>,
      <<NullId, Num(1000), "", "Biz">> }

InsertVendor(sh) ==
    /\ Len(vendors) < MaxVendors
    /\ vendors' = Append(vendors,
                         Vendor(VendorIds[Len(vendors) + 1], sh[1], sh[2], sh[3], sh[4]))
    /\ resp' = NoResp
    /\ UNCHANGED <<side, clock, bookings, places, users>>

PlaceTables ==
    { <<>>,
      <<Place("p1", "Cafe", Num(30000)), Place("p2", "", Null)>> }

PayoutBookings ==
    { Booking("p1", NullId, Null, Num(10000), NullTs, NullTs),
      Booking("p1", NullId, Null, Num(5000), NullTs, NullTs),
      Booking("p1", NullId, Null, Num(0), NullTs, NullTs),
      Booking("p2", NullId, Null, Null, NullTs, NullTs),
      Booking("p2", NullId, Null, Text, NullTs, NullTs),
      Booking(NullId, NullId, Null, Num(2500), NullTs, NullTs) }

InsertPayoutBooking(b) ==
    /\ Len(bookings) < MaxBookings
    /\ bookings' = Append(bookings, b)
    /\ resp' = NoResp
    /\ UNCHANGED <<side, clock, vendors, places, users>>

InitPayouts ==
    /\ clock \in ServiceTimes
    /\ bookings = <<>>
    /\ vendors = <<>>
    /\ places \in PlaceTables
    /\ users = <<>>
    /\ resp = NoResp
    /\ InitSide

NextPayouts ==
    \/ \E sh \in VendorShapes : InsertVendor(sh)
    \/ \E b \in PayoutBookings : InsertPayoutBooking(b)
    \/ \E fetch \in FetchOutcomes : GetPayouts(fetch)

SpecPayouts == InitPayouts /\ [][NextPayouts]_vars

(***************************************************************************)
(* Claims about the payouts (checked under SpecPayouts).                   *)
(***************************************************************************)
PayoutsOk == resp.op = "payouts" /\ resp.status = 200

\* the rows of the request's input booked at place pid
BookedAt(pid) == { i \in 1..Len(resp.input) : resp.input[i].place_id = pid }

BookedPlaces == { resp.input[i].place_id : i \in 1..Len(resp.input) } \ {NullId}

RECURSIVE SumPayable(_)
SumPayable(S) ==
    IF S = {} THEN 0
    ELSE LET i == CHOOSE x \in S : TRUE
         IN  FloatOr(resp.input[i].amount_payable_to_vendor, 0) + SumPayable(S \ {i})

\* paid_so_far of the vendor a row names, 0 when it names none or it is absent
PaidSoFar(vid) ==
    IF \E i \in 1..Len(resp.vendors) : resp.vendors[i].id = vid
    THEN LET v == CHOOSE v \in { resp.vendors[i] : i \in 1..Len(resp.vendors) } : v.id = vid
         IN  FloatOr(v.paid_so_far, 0)
    ELSE 0

\* C4: every place id with a booking has a row with the number of its
\* bookings and, when it is not zero, the sum of their amounts payable to
\* the vendor; in every row balance = total_amount - amount_paid, with
\* amount_paid the vendor's paid_so_far (0 when absent).
C4_PayoutRows ==
    PayoutsOk =>
        /\ \A pid \in BookedPlaces :
              \E n \in 1..Len(resp.rows) :
                  /\ resp.rows[n].place_id = pid
                  /\ resp.rows[n].num_bookings = Cardinality(BookedAt(pid))
                  /\ SumPayable(BookedAt(pid)) # 0
                        => resp.rows[n].total_amount = SumPayable(BookedAt(pid))
        /\ \A n \in 1..Len(resp.rows) :
              /\ resp.rows[n].amount_paid = PaidSoFar(resp.rows[n].vendor_id)
              /\ resp.rows[n].balance =
                    resp.rows[n].total_amount - resp.rows[n].amount_paid

C4_Witness ==
    /\ PayoutsOk
    /\ Cardinality(BookedAt("p1")) = 2
    /\ SumPayable(BookedAt("p1")) = 15000
    /\ \E n \in 1..Len(resp.rows) :
          /\ resp.rows[n].place_id = "p1"
          /\ resp.rows[n].vendor_id = "v1"
          /\ resp.rows[n].total_amount = 15000
          /\ resp.rows[n].amount_paid = 2000
          /\ resp.rows[n].balance = 13000

RowVendors == { resp.rows[n].vendor_id : n \in 1..Len(resp.rows) }

\* C5 as stated: every vendor of the collection is the vendor_id of a row.
C5_EveryVendorListed ==
    PayoutsOk => \A i \in 1..Len(resp.vendors) : resp.vendors[i].id \in RowVendors

LinkedTo(pid) ==
    { resp.vendors[i].id : i \in { j \in 1..Len(resp.vendors) : resp.vendors[j].place_id = pid } }

\* C5 as amended: every vendor linked to a place (a place_id that is not
\* empty) is represented by exactly one row for that place id, which names a
\* vendor linked to that place (this vendor when no other is linked to it),
\* and is a zero-activity row when the place has no bookings; a vendor
\* without a place_id is in no row.
C5_LinkedVendorsListed ==
    PayoutsOk =>
        \A i \in 1..Len(resp.vendors) :
            LET v == resp.vendors[i]
            IN  IF v.place_id = NullId THEN v.id \notin RowVendors
                ELSE /\ Cardinality({ n \in 1..Len(resp.rows) :
                                        resp.rows[n].place_id = v.place_id }) = 1
                     /\ \A n \in 1..Len(resp.rows) :
                            resp.rows[n].place_id = v.place_id =>
                               /\ resp.rows[n].vendor_id \in LinkedTo(v.place_id)
                               /\ BookedAt(v.place_id) = {} =>
                                     /\ resp.rows[n].num_bookings = 0
                                     /\ resp.rows[n].total_amount = 0

C5_Witness ==
    /\ PayoutsOk
    /\ Len(resp.vendors) = 2
    /\ resp.vendors[1].place_id = "p2"
    /\ resp.vendors[2].place_id = NullId
    /\ BookedAt("p2") = {}
    /\ BookedAt("p1") # {}
    /\ \E n \in 1..Len(resp.rows) :
          /\ resp.rows[n].vendor_id = "v1"
          /\ resp.rows[n].num_bookings = 0
          /\ resp.rows[n].total_amount = 0
    /\ "v2" \notin RowVendors

\* avg_price of the place of the request's snapshot, 0 when the place or
\* its avg_price is absent
AvgPriceOf(pid) ==
    IF \E i \in 1..Len(resp.places) :
          resp.places[i].id = pid /\ resp.places[i].avg_price.k = "num"
    THEN LET i == CHOOSE i \in 1..Len(resp.places) : resp.places[i].id = pid
         IN  resp.places[i].avg_price.v
    ELSE 0

\* C13: in the row of a place with bookings, total_amount is the sum of the
\* amounts payable when that sum is not zero, and avg_price times the number
\* of bookings (0 when the place or its avg_price is absent) when it is zero.
C13_FallbackOnZero ==
    PayoutsOk =>
        \A n \in 1..Len(resp.rows) :
            LET pid == resp.rows[n].place_id
                cnt == Cardinality(BookedAt(pid))
                sum == SumPayable(BookedAt(pid))
            IN  cnt > 0 =>
                  resp.rows[n].total_amount =
                     IF sum # 0 THEN sum ELSE AvgPriceOf(pid) * cnt

\* two bookings of p1 that sum to zero: the row shows twice its avg_price
C13_Witness ==
    /\ PayoutsOk
    /\ Cardinality(BookedAt("p1")) = 2
    /\ SumPayable(BookedAt("p1")) = 0
    /\ AvgPriceOf("p1") = 30000
    /\ \E n \in 1..Len(resp.rows) :
          resp.rows[n].place_id = "p1" /\ resp.rows[n].total_amount = 60000

RowsOf(pid) == { n \in 1..Len(resp.rows) : resp.rows[n].place_id = pid }

\* C14: every place id with a booking has exactly one row, which names the
\* vendor linked to the place (the last one of the vendors collection when
\* several are) or, when none is, no vendor, the name "-" and amount_paid 0;
\* no place id is in two rows.
C14_OneRowPerBookedPlace ==
    PayoutsOk =>
        /\ \A pid \in BookedPlaces :
              /\ Cardinality(RowsOf(pid)) = 1
              /\ \A n \in RowsOf(pid) :
                    IF LinkedTo(pid) = {}
                    THEN /\ resp.rows[n].vendor_id = NullId
                         /\ resp.rows[n].name = "-"
                         /\ resp.rows[n].amount_paid = 0
                    ELSE resp.rows[n].vendor_id =
                            resp.vendors[Last({ i \in 1..Len(resp.vendors) :
                                                  resp.vendors[i].place_id = pid })].id
        /\ \A n, k \in 1..Len(resp.rows) :
              resp.rows[n].place_id = resp.rows[k].place_id => n = k

\* p1 booked and linked to two vendors, p2 booked and linked to none
C14_Witness ==
    /\ PayoutsOk
    /\ BookedPlaces = {"p1", "p2"}
    /\ LinkedTo("p1") = {"v1", "v2"}
    /\ LinkedTo("p2") = {}
    /\ Len(resp.rows) = 2
    /\ \E n \in RowsOf("p1") : resp.rows[n].vendor_id = "v2"
    /\ \E n \in RowsOf("p2") : resp.rows[n].vendor_id = NullId

(***************************************************************************)
(* GET /api/users/customer-distribution                                    *)
(***************************************************************************)
User(id, created_at) == [id |-> id, created_at |-> created_at]

\* counts: the number of rows of each user id that is not None
BookingCount(rows, uid) ==
    Cardinality({ i \in 1..Len(rows) : rows[i].user_id # NullId /\ rows[i].user_id = uid })

\* created_dt: the parsed created_at, a naive one taken as UTC; None when it
\* is absent, empty or does not parse
CreatedOk(u) == u.created_at.k = "iso"

CreatedUtc(u) == ToNaiveUtc([ok |-> TRUE, h |-> u.created_at.h,
                             aware |-> u.created_at.aware, off |-> u.created_at.off])

NoCounts == [new |-> 0, vip |-> 0, regular |-> 0, inactive |-> 0]

\* (mutant) the last branch an elif on the creation time instead of an else
SegmentStep_elif(c, u, bc, now) ==
    IF u.id = NullId THEN c
    ELSE IF bc >= VIP_MIN THEN [c EXCEPT !.vip = @ + 1]
    ELSE IF bc >= REGULAR_MIN THEN [c EXCEPT !.regular = @ + 1]
    ELSE IF CreatedOk(u) /\ CreatedUtc(u) >= now - 24 * NEW_DAYS
    THEN [c EXCEPT !.new = @ + 1]
    ELSE IF CreatedOk(u) THEN [c EXCEPT !.inactive = @ + 1]
    ELSE c

\* (mutant) the creation time looked at before the booking count
SegmentStep_newfirst(c, u, bc, now) ==
    IF u.id = NullId THEN c
    ELSE IF CreatedOk(u) /\ CreatedUtc(u) >= now - 24 * NEW_DAYS
    THEN [c EXCEPT !.new = @ + 1]
    ELSE IF bc >= VIP_MIN THEN [c EXCEPT !.vip = @ + 1]
    ELSE IF bc >= REGULAR_MIN THEN [c EXCEPT !.regular = @ + 1]
    ELSE [c EXCEPT !.inactive = @ + 1]

\* the body of the loop over the users, bc being the user's booking count
SegmentStep(c, u, bc, now) ==
    IF u.id = NullId THEN c
    ELSE IF bc >= VIP_MIN THEN [c EXCEPT !.vip = @ + 1]
    ELSE IF bc >= REGULAR_MIN THEN [c EXCEPT !.regular = @ + 1]
    ELSE IF CreatedOk(u) /\ CreatedUtc(u) >= now - 24 * NEW_DAYS
    THEN [c EXCEPT !.new = @ + 1]
    ELSE [c EXCEPT !.inactive = @ + 1]

RECURSIVE SegmentLoop(_, _, _, _, _)
SegmentLoop(us, rows, now, i, c) ==
    IF i > Len(us) THEN c
    ELSE SegmentLoop(us, rows, now, i + 1,
                     SegmentStep(c, us[i], BookingCount(rows, us[i].id), now))

get_customer_distribution(us, rows, now) ==
    LET c == SegmentLoop(us, rows, now, 1, NoCounts)
    IN  << [segment |-> "New Customers", count |-> c.new],
           [segment |-> "VIP Customers", count |-> c.vip],
           [segment |-> "Regular Customers", count |-> c.regular],
           [segment |-> "Inactive Customers", count |-> c.inactive] >>

\* One request. fetch = "error": the select of users or of bookings raises.
GetCustomerDistribution(fetch) ==
    /\ resp' = IF fetch = "error"
               THEN [op |-> "customer-distribution", status |-> 500, now |-> clock,
                     raised |-> FetchRaised(fetch), cause |-> FetchCause(fetch),
                     users |-> <<>>, input |-> <<>>, rows |-> <<>>]
               ELSE [op |-> "customer-distribution", status |-> 200, now |-> clock,
                     raised |-> FetchRaised(fetch), cause |-> "none",
                     users |-> users, input |-> bookings,
                     rows |-> get_customer_distribution(users, bookings, clock)]
    /\ UNCHANGED <<side, clock, bookings, vendors, places, users>>

(***************************************************************************)
(* The store as the segmentation sees it. users.id is the primary key of   *)
(* the table: every row has one, and no two rows share it.                 *)
(***************************************************************************)
UserIds == <<"u1", "u2", "u3", "u4">>

CreatedAts(now) ==
    { IsoTz(now - 24, 0),
      Iso(now - 24 * NEW_DAYS),
      IsoTz(now - 24 * (NEW_DAYS + 1), 0),
      BadTs,
      NullTs }

InsertUser(created_at) ==
    /\ Len(users) < MaxUsers
    /\ users' = Append(users, User(UserIds[Len(users) + 1], created_at))
    /\ resp' = NoResp
    /\ UNCHANGED <<side, clock, bookings, vendors, places>>

InsertUserBooking(uid) ==
    /\ Len(bookings) < MaxUserBookings
    /\ bookings' = Append(bookings, Booking(NullId, uid, Null, Null, NullTs, NullTs))
    /\ resp' = NoResp
    /\ UNCHANGED <<side, clock, vendors, places, users>>

InitSegments ==
    /\ clock = 24 * DaysFromCivil(2024, 3, 15) + 10
    /\ bookings = <<>>
    /\ vendors = <<>>
    /\ places = <<>>
    /\ users = <<>>
    /\ resp = NoResp
    /\ InitSide

NextSegments ==
    \/ \E created_at \in CreatedAts(clock) : InsertUser(created_at)
    \/ \E uid \in {"u1", NullId} : InsertUserBooking(uid)
    \/ \E fetch \in {"ok", "error"} : GetCustomerDistribution(fetch)

SpecSegments == InitSegments /\ [][NextSegments]_vars

(***************************************************************************)
(* Claims about the segmentation (checked under SpecSegments).             *)
(***************************************************************************)
SegmentsOk == resp.op = "customer-distribution" /\ resp.status = 200

\* C6: every user of the collection is in exactly one of the four segments:
\* the four counts add up to the number of users.
C6_CountsCoverUsers ==
    SegmentsOk =>
        /\ Len(resp.rows) = 4
        /\ resp.rows[1].count + resp.rows[2].count
              + resp.rows[3].count + resp.rows[4].count = Len(resp.users)

C6_Witness ==
    /\ SegmentsOk
    /\ Len(resp.users) = 2
    /\ resp.rows[2].count = 1
    /\ resp.rows[4].count = 1
    /\ \E i \in 1..2 : ~CreatedOk(resp.users[i])

\* the number of bookings of user i of the request's snapshot
BookingsOf(i) == BookingCount(resp.input, resp.users[i].id)

\* user i was created within the 30 days before the service time
CreatedRecently(i) ==
    /\ resp.users[i].created_at.k = "iso"
    /\ CreatedUtc(resp.users[i]) >= resp.now - 24 * 30

UsersWhere(P(_)) == Cardinality({ i \in 1..Len(resp.users) : P(i) })

\* C17: VIP are the users with at least 5 bookings and Regular those with 1
\* to 4, whatever their creation time; of the users with no booking, New are
\* those whose creation time parses and lies within the last 30 days, and
\* Inactive the others.
C17_CountFirst ==
    SegmentsOk =>
        /\ resp.rows[1].segment = "New Customers"
        /\ resp.rows[1].count =
              UsersWhere(LAMBDA i : BookingsOf(i) = 0 /\ CreatedRecently(i))
        /\ resp.rows[2].segment = "VIP Customers"
        /\ resp.rows[2].count = UsersWhere(LAMBDA i : BookingsOf(i) >= 5)
        /\ resp.rows[3].segment = "Regular Customers"
        /\ resp.rows[3].count =
              UsersWhere(LAMBDA i : BookingsOf(i) >= 1 /\ BookingsOf(i) <= 4)
        /\ resp.rows[4].segment = "Inactive Customers"
        /\ resp.rows[4].count =
              UsersWhere(LAMBDA i : BookingsOf(i) = 0 /\ ~CreatedRecently(i))

\* a user created yesterday with 5 bookings is VIP, one created 31 days ago
\* with none is Inactive
C17_Witness ==
    /\ SegmentsOk
    /\ Len(resp.users) = 2
    /\ BookingsOf(1) = 5
    /\ CreatedRecently(1)
    /\ BookingsOf(2) = 0
    /\ resp.users[2].created_at.k = "iso"
    /\ CreatedUtc(resp.users[2]) = resp.now - 24 * 31
    /\ resp.rows[2].count = 1
    /\ resp.rows[4].count = 1

(***************************************************************************)
(* The places handlers: POST /api/places, PUT /api/places/{id},            *)
(* PATCH /api/places/{id}/toggle-visibility, DELETE /api/places/{id}, and  *)
(* POST /api/auth/signup. An action is one whole request; fail names the   *)
(* collaborator call of the request that raises, "none" when none does.    *)
(***************************************************************************)
PlaceIds == <<"p1", "p2">>

Abs(x) == IF x < 0 THEN -x ELSE x

\* round(x, n) of a payload number: the nearest multiple of step; which of
\* the two a tie goes to depends on the binary value of the float
RoundCandidates(x, step) ==
    LET q == x \div step
        r == x % step
    IN  IF 2 * r < step THEN {q * step}
        ELSE IF 2 * r > step THEN {(q + 1) * step}
        ELSE {q * step, (q + 1) * step}

\* the request body: name "", id NullId, visible "null" and the values Null
\* and NullTs are the fields that are None, which
\* model_dump(exclude_none=True) leaves out
PayloadOf(id, name, rating, avg_price, visible, created_at, updated_at) ==
    [id |-> id, name |-> name, rating |-> rating, avg_price |-> avg_price,
     visible |-> visible, created_at |-> created_at, updated_at |-> updated_at]

Payload(name, rating, avg_price) ==
    PayloadOf(NullId, name, rating, avg_price, "null", NullTs, NullTs)

RatingRounds(payload) ==
    IF payload.rating.k = "num" THEN RoundCandidates(payload.rating.v, RATING_STEP) ELSE {0}

PriceRounds(payload) ==
    IF payload.avg_price.k = "num" THEN RoundCandidates(payload.avg_price.v, PRICE_STEP) ELSE {0}

\* (mutant) the check on the value without abs()
RatingRejected_signed(payload) ==
    payload.rating.k = "num" /\ payload.rating.v > RATING_MAX

\* abs(rating_value) > 9.9
RatingRejected(payload) ==
    payload.rating.k = "num" /\ Abs(payload.rating.v) > RATING_MAX

Exists(id) == \E i \in 1..Len(places) : places[i].id = id

RowOf(ps, id) == ps[CHOOSE i \in 1..Len(ps) : ps[i].id = id]

NoRow == PlaceRow(NullId, "", Null, Null, "null")

\* the tables, the files and the identities a request can change
Store == [places |-> places, storage |-> storage,
          identities |-> identities, admins |-> admins,
          gallery_images |-> gallery_images]

\* (mutant) the fields that are None are written too
WriteFields_nulls(row, payload, r, a) ==
    [row EXCEPT !.name = IF payload.name # "" THEN payload.name ELSE @,
                !.rating = IF payload.rating.k = "num" THEN Num(r) ELSE Null,
                !.avg_price = IF payload.avg_price.k = "num" THEN Num(a) ELSE Null,
                !.visible = payload.visible]

\* the fields of update_dict written over a row: those of the body that are
\* not None, without id, created_at and updated_at; r and a are the rounded
\* rating and price
WriteFields(row, payload, r, a) ==
    [row EXCEPT !.name = IF payload.name # "" THEN payload.name ELSE @,
                !.rating = IF payload.rating.k = "num" THEN Num(r) ELSE @,
                !.avg_price = IF payload.avg_price.k = "num" THEN Num(a) ELSE @,
                !.visible = IF payload.visible # "null" THEN payload.visible ELSE @]

FreeIds == { i \in 1..Len(PlaceIds) : ~Exists(PlaceIds[i]) }

\* POST /api/places. The insert raises when fail = "insert", and when the
\* row has no name (places.name is NOT NULL).
CreatePlace(payload, fail, r, a) ==
    /\ FreeIds # {}
    /\ LET id  == PlaceIds[CHOOSE i \in FreeIds : \A j \in FreeIds : i <= j]
           row == [WriteFields(PlaceRow(id, "", Null, Null, "true"), payload, r, a)
                     EXCEPT !.created_at = Iso(clock), !.updated_at = Iso(clock)]
           status == IF RatingRejected(payload) THEN 400
                     ELSE IF fail = "insert" \/ payload.name = "" THEN 500
                     ELSE 200
       IN  /\ places' = IF status = 200 THEN Append(places, row) ELSE places
           /\ resp' = [op |-> "create", status |-> status, id |-> id,
                       payload |-> payload, fail |-> fail, before |-> Store,
                       raised |-> IF ~RatingRejected(payload) /\ fail = "insert"
                                  THEN {"insert"} ELSE {},
                       cause |-> IF status = 500 THEN "insert" ELSE "none",
                       place |-> IF status = 200 THEN row ELSE NoRow]
    /\ UNCHANGED <<side, clock, bookings, vendors, users>>

\* PUT /api/places/{id}
UpdatePlace(id, payload, fail, r, a) ==
    /\ LET status == IF fail = "check" THEN 500
                     ELSE IF ~Exists(id) THEN 404
                     ELSE IF RatingRejected(payload) THEN 400
                     ELSE IF fail \in {"update", "refetch"} THEN 500
                     ELSE 200
           written == /\ fail \notin {"check", "update"}
                      /\ Exists(id)
                      /\ ~RatingRejected(payload)
           ps == [i \in 1..Len(places) |->
                    IF places[i].id = id
                    THEN WriteFields(places[i], payload, r, a) ELSE places[i]]
       IN  /\ places' = IF written THEN ps ELSE places
           /\ resp' = [op |-> "update", status |-> status, id |-> id,
                       payload |-> payload, fail |-> fail, before |-> Store,
                       raised |-> IF status = 500 THEN {fail} ELSE {},
                       cause |-> IF status = 500 THEN fail ELSE "none",
                       place |-> IF status = 200 THEN RowOf(ps, id) ELSE NoRow]
    /\ UNCHANGED <<side, clock, bookings, vendors, users>>

\* (mutant) a toggle that leaves None as it is
Toggled_keepnull(current_visible) ==
    IF current_visible = "true" THEN "false"
    ELSE IF current_visible = "false" THEN "true" ELSE "null"

\* True -> False, False/None -> True
Toggled(current_visible) == IF current_visible = "true" THEN "false" ELSE "true"

\* PATCH /api/places/{id}/toggle-visibility. was: the value the request
\* read; prev_was and prev_visible: the value the request before it read and
\* the value it returned, when that one was a toggle of the same place that
\* succeeded.
TogglePlaceVisibility(id, fail) ==
    /\ LET status == IF fail = "read" THEN 500
                     ELSE IF ~Exists(id) THEN 404
                     ELSE IF fail \in {"update", "refetch"} THEN 500
                     ELSE 200
           written == fail \notin {"read", "update"} /\ Exists(id)
           was == IF Exists(id) THEN RowOf(places, id).visible ELSE "null"
           ps == [i \in 1..Len(places) |->
                    IF places[i].id = id
                    THEN [places[i] EXCEPT !.visible = Toggled(was)] ELSE places[i]]
       IN  /\ places' = IF written THEN ps ELSE places
           /\ resp' = [op |-> "toggle-visibility", status |-> status, id |-> id,
                       fail |-> fail, before |-> Store, was |-> was,
                       raised |-> IF status = 500 THEN {fail} ELSE {},
                       cause |-> IF status = 500 THEN fail ELSE "none",
                       prev_was |-> IF /\ resp.op = "toggle-visibility"
                                       /\ resp.status = 200
                                       /\ resp.id = id
                                    THEN resp.was ELSE "none",
                       prev_visible |-> IF /\ resp.op = "toggle-visibility"
                                           /\ resp.status = 200
                                           /\ resp.id = id
                                        THEN resp.place.visible ELSE "none",
                       place |-> IF status = 200 THEN RowOf(ps, id) ELSE NoRow]
    /\ UNCHANGED <<side, clock, bookings, vendors, users>>

\* (mutant) the banner file is removed before the place is looked up
DeletePlace_removefirst(id, fail) ==
    /\ LET status == IF fail = "check" THEN 500
                     ELSE IF ~Exists(id) THEN 404
                     ELSE IF fail \in {"delete", "storage+delete"} THEN 500
                     ELSE 200
       IN  /\ storage' = IF fail \notin {"storage", "storage+delete"}
                         THEN storage \ {id} ELSE storage
           /\ places' = IF status = 200
                        THEN SelectSeq(places, LAMBDA row : row.id # id) ELSE places
           /\ resp' = [op |-> "delete", status |-> status, id |-> id,
                       fail |-> fail, before |-> Store,
                       raised |-> IF status = 500 THEN {fail} ELSE {},
                       cause |-> IF status # 500 THEN "none"
                                 ELSE IF fail = "check" THEN "check" ELSE "delete"]
    /\ UNCHANGED <<req, identities, admins, gallery_images, reviews, clock, bookings, vendors, users>>

\* DELETE /api/places/{id}. A failure of the removal of the banner file is
\* logged and the deletion goes on.
DeletePlace(id, fail) ==
    /\ LET status == IF fail = "check" THEN 500
                     ELSE IF ~Exists(id) THEN 404
                     ELSE IF fail \in {"delete", "storage+delete"} THEN 500
                     ELSE 200
           reached == fail # "check" /\ Exists(id)
       IN  /\ storage' = IF reached /\ fail \notin {"storage", "storage+delete"}
                         THEN storage \ {id} ELSE storage
           /\ places' = IF status = 200
                        THEN SelectSeq(places, LAMBDA row : row.id # id) ELSE places
           /\ resp' = [op |-> "delete", status |-> status, id |-> id,
                       fail |-> fail, before |-> Store,
                       raised |-> IF fail = "check" THEN {"check"}
                                  ELSE IF ~reached THEN {}
                                  ELSE IF fail = "storage" THEN {"storage"}
                                  ELSE IF fail = "delete" THEN {"delete"}
                                  ELSE IF fail = "storage+delete" THEN {"storage", "delete"}
                                  ELSE {},
                       cause |-> IF status # 500 THEN "none"
                                 ELSE IF fail = "check" THEN "check" ELSE "delete"]
    /\ UNCHANGED <<req, identities, admins, gallery_images, reviews, clock, bookings, vendors, users>>

\* POST /api/auth/signup. fail: "signup", sign_up raises; "nouser", it
\* returns no user; "insert", the insert into admins raises; "duplicate", it
\* raises with a message holding "already exists"; "empty", it returns no
\* row. The provider raises "User already registered" for an
\* e-mail it knows. The HTTPException raised inside the try block is caught
\* by the handler's own except Exception and answered as a 500.
Signup(email, fail) ==
    /\ LET known == email \in identities
           status == IF known \/ fail = "duplicate" THEN 400
                     ELSE IF fail = "none" THEN 200 ELSE 500
           signed == ~known /\ fail \notin {"signup", "nouser"}
       IN  /\ identities' = IF signed THEN identities \cup {email} ELSE identities
           /\ admins' = IF status = 200 THEN Append(admins, email) ELSE admins
           /\ resp' = [op |-> "signup", status |-> status, id |-> email,
                       fail |-> fail, before |-> Store,
                       raised |-> IF known THEN {}
                                  ELSE IF fail = "signup" THEN {"sign_up"}
                                  ELSE IF fail = "insert" THEN {"insert"}
                                  ELSE {},
                       cause |-> IF known THEN "none"
                                 ELSE IF fail = "signup" THEN "sign_up"
                                 ELSE IF fail = "insert" THEN "insert"
                                 ELSE "none",
                       detail |-> IF known \/ fail = "duplicate"
                                  THEN "An account with this email already exists"
                                  ELSE IF fail = "none" THEN "Account created successfully"
                                  ELSE "Error during signup"]
    /\ UNCHANGED <<req, storage, gallery_images, reviews, clock, bookings, vendors, places, users>>

GalleryIds == <<"g1">>

FreeGalleryIds ==
    { i \in 1..Len(GalleryIds) :
        \A j \in 1..Len(gallery_images) : gallery_images[j].id # GalleryIds[i] }

\* POST /api/places/{place_id}/gallery-images
CreateGalleryImage(place_id, fail) ==
    /\ FreeGalleryIds # {}
    /\ LET gid == GalleryIds[CHOOSE i \in FreeGalleryIds : \A j \in FreeGalleryIds : i <= j]
           status == IF fail = "check" THEN 500
                     ELSE IF ~Exists(place_id) THEN 404
                     ELSE IF fail = "insert" THEN 500
                     ELSE 200
       IN  /\ gallery_images' = IF status = 200
                                THEN Append(gallery_images, [id |-> gid, place_id |-> place_id])
                                ELSE gallery_images
           /\ resp' = [op |-> "create-gallery-image", status |-> status, id |-> place_id,
                       fail |-> fail, before |-> Store,
                       raised |-> IF status = 500 THEN {fail} ELSE {},
                       cause |-> IF status = 500 THEN fail ELSE "none"]
    /\ UNCHANGED <<req, storage, identities, admins, reviews, clock, bookings, vendors, places, users>>

\* DELETE /api/places/{place_id}/gallery-images/{gallery_image_id}
DeleteGalleryImage(place_id, gallery_image_id, fail) ==
    /\ LET found == \E j \in 1..Len(gallery_images) :
                        /\ gallery_images[j].id = gallery_image_id
                        /\ gallery_images[j].place_id = place_id
           status == IF fail = "check" THEN 500
                     ELSE IF ~found THEN 404
                     ELSE IF fail = "delete" THEN 500
                     ELSE 200
       IN  /\ gallery_images' = IF status = 200
                                THEN SelectSeq(gallery_images,
                                               LAMBDA g : g.id # gallery_image_id)
                                ELSE gallery_images
           /\ resp' = [op |-> "delete-gallery-image", status |-> status, id |-> place_id,
                       fail |-> fail, before |-> Store,
                       raised |-> IF status = 500 THEN {fail} ELSE {},
                       cause |-> IF status = 500 THEN fail ELSE "none"]
    /\ UNCHANGED <<req, storage, identities, admins, reviews, clock, bookings, vendors, places, users>>

\* a banner file put in the bucket by the front end
UploadBanner(id) ==
    /\ id \notin storage
    /\ storage' = storage \cup {id}
    /\ resp' = NoResp
    /\ UNCHANGED <<req, identities, admins, gallery_images, reviews, clock, bookings, vendors, places, users>>

(***************************************************************************)
(* The places handlers under failures of their collaborators.              *)
(***************************************************************************)
AllPlaceIds == { PlaceIds[i] : i \in 1..Len(PlaceIds) }

InitPlaces ==
    /\ clock = 24 * DaysFromCivil(2024, 3, 15) + 10
    /\ bookings = <<>>
    /\ vendors = <<>>
    /\ places \in { <<>>, <<PlaceRow("p1", "A", Null, Null, "null")>> }
    /\ users = <<>>
    /\ resp = NoResp
    /\ InitSide

NextPlaces ==
    \/ \E fail \in {"none", "insert"} :
          CreatePlace(Payload("B", Null, Null), fail, 0, 0)
    \/ \E id \in AllPlaceIds, fail \in {"none", "check", "update", "refetch"} :
          UpdatePlace(id, Payload("B", Null, Null), fail, 0, 0)
    \/ \E id \in AllPlaceIds, fail \in {"none", "read", "update", "refetch"} :
          TogglePlaceVisibility(id, fail)
    \/ \E id \in AllPlaceIds,
          fail \in {"none", "check", "storage", "delete", "storage+delete"} :
          DeletePlace(id, fail)
    \/ \E fail \in {"none", "signup", "nouser", "insert", "duplicate", "empty"} :
          Signup("a@x", fail)
    \/ \E id \in AllPlaceIds, fail \in {"none", "check", "insert"} :
          CreateGalleryImage(id, fail)
    \/ \E id \in AllPlaceIds, fail \in {"none", "check", "delete"} :
          DeleteGalleryImage(id, GalleryIds[1], fail)
    \/ \E id \in AllPlaceIds : UploadBanner(id)

SpecPlaces == InitPlaces /\ [][NextPlaces]_vars

MutatingOps ==
    {"create", "update", "toggle-visibility", "delete",
     "create-gallery-image", "delete-gallery-image", "signup"}

\* C7: whenever a create/update/toggle-visibility/delete place, a
\* create/delete gallery image or a signup request is answered with an
\* error, the tables, the object storage and the identity provider are as
\* they were before the request.
C7_FailsAtomically ==
    (resp.op \in MutatingOps /\ resp.status >= 400) => Store = resp.before

\* what the claim says a toggle does to the value it finds
Flipped(v) == IF v = "true" THEN "false" ELSE "true"

\* C8: a toggle that succeeds returns and stores the flip of the value it
\* read (true to false, false and null to true), so the stored value is a
\* boolean; when the request before it was a successful toggle of the same
\* place that found null, that one returned true and this one returns false.
C8_ToggleTwice ==
    (resp.op = "toggle-visibility" /\ resp.status = 200) =>
        /\ resp.place.visible = Flipped(resp.was)
        /\ RowOf(places, resp.id).visible = resp.place.visible
        /\ RowOf(places, resp.id).visible \in {"true", "false"}
        /\ resp.prev_was = "null" =>
              /\ resp.prev_visible = "true"
              /\ resp.was = "true"
              /\ resp.place.visible = "false"

\* the second of two toggles in succession on a place whose visible was null
C8_Witness ==
    /\ resp.op = "toggle-visibility"
    /\ resp.status = 200
    /\ resp.prev_was = "null"
    /\ resp.prev_visible = "true"
    /\ resp.place.visible = "false"

(***************************************************************************)
(* The places handlers under the ratings and prices of a request body.     *)
(***************************************************************************)
RatingPayloads ==
    { Payload("B", Null, Null),
      Payload("", Num(4250), Num(12346)),
      Payload("B", Num(-1000), Null),
      Payload("B", Num(9900), Num(12345)),
      Payload("B", Num(9950), Null),
      Payload("", Num(10000), Num(500)),
      Payload("B", Num(-10000), Null) }

InitRatings ==
    /\ clock = 24 * DaysFromCivil(2024, 3, 15) + 10
    /\ bookings = <<>>
    /\ vendors = <<>>
    /\ places = <<>>
    /\ users = <<>>
    /\ resp = NoResp
    /\ InitSide

NextRatings ==
    \/ \E payload \in RatingPayloads :
          \E r \in RatingRounds(payload), a \in PriceRounds(payload) :
             \E fail \in {"none", "insert"} : CreatePlace(payload, fail, r, a)
    \/ \E id \in AllPlaceIds, payload \in RatingPayloads :
          \E r \in RatingRounds(payload), a \in PriceRounds(payload) :
             \E fail \in {"none", "check"} : UpdatePlace(id, payload, fail, r, a)

SpecRatings == InitRatings /\ [][NextRatings]_vars

\* C9: every stored rating is between 0 and 9.9 with one decimal, and every
\* stored avg_price has two decimals.
C9_StoredRatingInRange ==
    \A i \in 1..Len(places) :
        /\ places[i].rating.k = "num" =>
              /\ places[i].rating.v >= 0
              /\ places[i].rating.v <= 9900
              /\ places[i].rating.v % 100 = 0
        /\ places[i].avg_price.k = "num" => places[i].avg_price.v % 10 = 0

\* the request carries a rating of magnitude above 9.9
OutOfRange(payload) ==
    payload.rating.k = "num" /\ (payload.rating.v > 9900 \/ payload.rating.v < -9900)

ExistedBefore ==
    \E i \in 1..Len(resp.before.places) : resp.before.places[i].id = resp.id

\* C10: a create, or an update of an existing place whose existence lookup
\* answered, with a rating of magnitude above 9.9 is answered 400; and no
\* request with such a rating writes to the store.
C10_OutOfRangeRejected ==
    (resp.op \in {"create", "update"} /\ OutOfRange(resp.payload)) =>
        /\ Store = resp.before
        /\ resp.op = "create" => resp.status = 400
        /\ (resp.op = "update" /\ ExistedBefore /\ resp.fail # "check") =>
              resp.status = 400

\* an update of an existing place with rating 9.95, which would round to 10.0
C10_Witness ==
    /\ resp.op = "update"
    /\ resp.status = 400
    /\ ExistedBefore
    /\ resp.payload.rating = Num(9950)
    /\ Store = resp.before

(***************************************************************************)
(* The handlers that read: POST /api/auth/login, GET /api/bookings and     *)
(* GET /api/places/{place_id}.                                             *)
(***************************************************************************)
\* POST /api/auth/login. fail: "auth", sign_in_with_password raises an
\* AuthError of the provider (AuthApiError, AuthRetryableError, ...) for a
\* reason that is not the credentials; "signin", it raises another exception;
\* "nosession", it returns a user and no session; "profile", the select of
\* admins raises. An e-mail the provider does not know is answered by the
\* provider with AuthApiError "Invalid login credentials".
Login(email, fail) ==
    /\ LET known == email \in identities
           status == IF fail = "signin" THEN 500
                     ELSE IF fail = "auth" \/ ~known \/ fail = "nosession" THEN 401
                     ELSE 200
           profile == \E i \in 1..Len(admins) : admins[i] = email
       IN  resp' = [op |-> "login", status |-> status, id |-> email, fail |-> fail,
                    raised |-> IF fail \in {"signin", "auth"} THEN {"sign_in"}
                               ELSE IF status = 200 /\ fail = "profile" THEN {"profile"}
                               ELSE {},
                    cause |-> IF status = 500 THEN "sign_in" ELSE "none",
                    user |-> IF status # 200 THEN "none"
                             ELSE IF fail # "profile" /\ profile THEN "admins row"
                             ELSE "auth user"]
    /\ UNCHANGED <<side, clock, bookings, vendors, places, users>>

\* GET /api/bookings. fail: "ordered", the ordered select with the joins
\* raises; "joined", so does the select with the joins; "all", so does the
\* plain select.
GetAllBookings(fail) ==
    /\ resp' = [op |-> "bookings", status |-> IF fail = "all" THEN 500 ELSE 200,
                fail |-> fail,
                raised |-> IF fail = "none" THEN {}
                           ELSE IF fail = "ordered" THEN {"ordered select"}
                           ELSE IF fail = "joined" THEN {"ordered select", "joined select"}
                           ELSE {"ordered select", "joined select", "plain select"},
                cause |-> IF fail = "all" THEN "plain select" ELSE "none",
                count |-> IF fail = "all" THEN 0 ELSE Len(bookings)]
    /\ UNCHANGED <<side, clock, bookings, vendors, places, users>>

Review(place_id, rating) == [place_id |-> place_id, rating |-> rating]

ReviewsOf(place_id) == SelectSeq(reviews, LAMBDA r : r.place_id = place_id)

\* the ratings float() converts
RatingsOf(rs) == SelectSeq(rs, LAMBDA r : r.rating.k = "num")

RECURSIVE SumRatings(_)
SumRatings(rs) == IF rs = <<>> THEN 0 ELSE Head(rs).rating.v + SumRatings(Tail(rs))

\* round(total / n, 1): the multiples of step nearest to total / n; which of
\* two a tie goes to depends on the binary value of the quotient
MeanRounds(total, n, step) ==
    LET q == total \div (n * step)
        r == total - q * n * step
    IN  IF 2 * r < n * step THEN {q * step}
        ELSE IF 2 * r > n * step THEN {(q + 1) * step}
        ELSE {q * step, (q + 1) * step}

\* (mutant) the sum of the ratings over the number of reviews
DerivedRatings_perreview(place_id) ==
    LET ratings == RatingsOf(ReviewsOf(place_id))
    IN  IF ratings = <<>> THEN {Null}
        ELSE { Num(m) : m \in MeanRounds(SumRatings(ratings),
                                         Len(ReviewsOf(place_id)), RATING_STEP) }

DerivedRatings(place_id) ==
    LET ratings == RatingsOf(ReviewsOf(place_id))
    IN  IF ratings = <<>> THEN {Null}
        ELSE { Num(m) : m \in MeanRounds(SumRatings(ratings), Len(ratings), RATING_STEP) }

\* (mutant) a failure of the select of reviews leaves the place without
\* rating and with no reviews
GetPlaceById_unrated(place_id, fail, derived) ==
    /\ derived \in DerivedRatings(place_id)
    /\ LET status == IF fail = "select" THEN 500
                     ELSE IF ~Exists(place_id) THEN 404
                     ELSE 200
           row == RowOf(places, place_id)
           n == IF fail = "reviews" THEN 0 ELSE Len(ReviewsOf(place_id))
       IN  resp' = [op |-> "get-place", status |-> status, id |-> place_id, fail |-> fail,
                    before |-> Store,
                    raised |-> IF fail = "select" THEN {"select"}
                               ELSE IF status = 200 /\ fail = "reviews" THEN {"reviews"}
                               ELSE {},
                    cause |-> IF status = 500 THEN "select" ELSE "none",
                    place |-> IF status # 200 THEN NoRow
                              ELSE [row EXCEPT !.review_count = Num(n),
                                               !.rating = IF n = 0 THEN Null ELSE derived]]
    /\ UNCHANGED <<side, clock, bookings, vendors, places, users>>

\* GET /api/places/{place_id}. fail: "select", the select of places raises;
\* "reviews", the select of reviews raises and the stored rating and
\* review_count are kept. derived is the rounded mean of the reviews.
GetPlaceById(place_id, fail, derived) ==
    /\ derived \in DerivedRatings(place_id)
    /\ LET status == IF fail = "select" THEN 500
                     ELSE IF ~Exists(place_id) THEN 404
                     ELSE 200
           row == RowOf(places, place_id)
           n == Len(ReviewsOf(place_id))
       IN  resp' = [op |-> "get-place", status |-> status, id |-> place_id, fail |-> fail,
                    before |-> Store,
                    raised |-> IF fail = "select" THEN {"select"}
                               ELSE IF status = 200 /\ fail = "reviews" THEN {"reviews"}
                               ELSE {},
                    cause |-> IF status = 500 THEN "select" ELSE "none",
                    place |-> IF status # 200 THEN NoRow
                              ELSE IF fail = "reviews" THEN row
                              ELSE [row EXCEPT !.review_count = Num(n),
                                               !.rating = IF n = 0 THEN Null ELSE derived]]
    /\ UNCHANGED <<side, clock, bookings, vendors, places, users>>

(***************************************************************************)
(* Every handler under the failures of its collaborators.                  *)
(***************************************************************************)
InitHandlers ==
    /\ clock = 24 * DaysFromCivil(2024, 3, 15) + 10
    /\ bookings = <<>>
    /\ vendors = <<>>
    /\ places \in { <<>>,
                    <<[PlaceRow("p1", "A", Null, Num(4000), "true")
                         EXCEPT !.review_count = Num(7)]>> }
    /\ users = <<>>
    /\ storage = {}
    /\ identities = {}
    /\ admins = <<>>
    /\ gallery_images = <<>>
    /\ reviews \in { <<>>,
                     <<Review("p1", Num(4000)), Review("p1", Num(4500)),
                       Review("p1", Null)>> }
    /\ req = NoReq
    /\ resp = NoResp

NextHandlers ==
    \/ \E fail \in {"none", "insert"} :
          CreatePlace(Payload("B", Null, Null), fail, 0, 0)
    \/ \E id \in AllPlaceIds, fail \in {"none", "check", "update", "refetch"} :
          UpdatePlace(id, Payload("B", Null, Null), fail, 0, 0)
    \/ \E id \in AllPlaceIds, fail \in {"none", "read", "update", "refetch"} :
          TogglePlaceVisibility(id, fail)
    \/ \E id \in AllPlaceIds,
          fail \in {"none", "check", "storage", "delete", "storage+delete"} :
          DeletePlace(id, fail)
    \/ \E fail \in {"none", "signup", "nouser", "insert", "duplicate", "empty"} :
          Signup("a@x", fail)
    \/ \E id \in AllPlaceIds, fail \in {"none", "check", "insert"} :
          CreateGalleryImage(id, fail)
    \/ \E id \in AllPlaceIds, fail \in {"none", "check", "delete"} :
          DeleteGalleryImage(id, GalleryIds[1], fail)
    \/ \E fail \in {"none", "auth", "signin", "nosession", "profile"} :
          Login("a@x", fail)
    \/ \E fail \in {"none", "ordered", "joined", "all"} : GetAllBookings(fail)
    \/ \E id \in AllPlaceIds, fail \in {"none", "select", "reviews"} :
          \E derived \in DerivedRatings(id) : GetPlaceById(id, fail, derived)
    \/ \E fetch \in FetchOutcomes : GetPayouts(fetch)
    \/ \E fetch \in FetchOutcomes : GetBookingsSalesAnalytics("monthly", fetch)
    \/ \E fetch \in {"ok", "error"} : GetCustomerDistribution(fetch)

SpecHandlers == InitHandlers /\ [][NextHandlers]_vars

\* the failures the handlers go on after
Tolerated ==
    \/ resp.op = "delete" /\ resp.raised = {"storage"}
    \/ resp.op = "get-place" /\ resp.raised = {"reviews"}
    \/ resp.op = "login" /\ resp.raised = {"profile"}
    \/ resp.op = "bookings" /\ resp.raised \subseteq {"ordered select", "joined select"}
    \/ resp.op \in {"payouts", "sales-analytics"} /\ resp.raised = {"select"}

\* C11 (as stated): a request in which a collaborator call raised for a
\* reason other than its input is answered 500 with the message of that
\* call, unless the call is the banner removal of delete place or the
\* reviews fetch of get place by id.
C11_OnlyTwoTolerated ==
    (resp.op # "none" /\ resp.raised # {}) =>
        \/ resp.status = 500 /\ resp.cause \in resp.raised
        \/ resp.op = "delete" /\ resp.raised = {"storage"} /\ resp.status = 200
        \/ resp.op = "get-place" /\ resp.raised = {"reviews"} /\ resp.status = 200

\* C11 (amended): such a request is answered 500 with the message of the
\* call that raised, unless the failure is one the handler goes on after
\* (then it answers 200), or the call is the sign-in of login raising an
\* authentication error (then it answers 401).
C11_FailuresSurface ==
    (resp.op # "none" /\ resp.raised # {}) =>
        IF Tolerated THEN resp.status = 200
        ELSE IF resp.op = "login" /\ resp.fail = "auth" THEN resp.status = 401
        ELSE resp.status = 500 /\ resp.cause \in resp.raised

\* a login answered 200 although the select of admins raised
C11_Witness ==
    /\ resp.op = "login"
    /\ resp.raised = {"profile"}
    /\ resp.status = 200
    /\ resp.user = "auth user"

(***************************************************************************)
(* GET /api/payouts and GET /api/users/customer-distribution select by     *)
(* select, with other clients writing to the tables in between. req holds  *)
(* what the request has fetched so far and, in seen, every state the       *)
(* tables have been in since the request began.                            *)
(***************************************************************************)
MaxWrites == 2

Snapshot(vs, ps, bs, us) == [vendors |-> vs, places |-> ps, bookings |-> bs, users |-> us]

Observe(st) == IF req.pc = "idle" THEN req ELSE [req EXCEPT !.seen = @ \cup {st}]

WriteVendor ==
    /\ Len(vendors) < MaxWrites
    /\ vendors' = Append(vendors,
                         Vendor(VendorIds[Len(vendors) + 1], "p1", Num(2000), "Ann", "Acme"))
    /\ req' = Observe(Snapshot(vendors', places, bookings, users))
    /\ resp' = NoResp
    /\ UNCHANGED <<storage, identities, admins, gallery_images, reviews,
                   clock, bookings, places, users>>

WriteBooking ==
    /\ Len(bookings) < MaxWrites
    /\ bookings' = Append(bookings, Booking("p1", "u1", Null, Num(10000), NullTs, NullTs))
    /\ req' = Observe(Snapshot(vendors, places, bookings', users))
    /\ resp' = NoResp
    /\ UNCHANGED <<storage, identities, admins, gallery_images, reviews,
                   clock, vendors, places, users>>

WriteUser ==
    /\ Len(users) < MaxWrites
    /\ users' = Append(users, User(UserIds[Len(users) + 1], Iso(clock - 24 * (NEW_DAYS + 1))))
    /\ req' = Observe(Snapshot(vendors, places, bookings, users'))
    /\ resp' = NoResp
    /\ UNCHANGED <<storage, identities, admins, gallery_images, reviews,
                   clock, bookings, vendors, places>>

Tables == <<storage, identities, admins, gallery_images, reviews,
            clock, bookings, vendors, places, users>>

\* vendors_res = supabase.table("vendors").select(...).execute()
PayoutsFetchVendors ==
    /\ req.pc = "idle"
    /\ req' = [NoReq EXCEPT !.pc = "payouts: places", !.vendors = vendors,
                            !.seen = {Snapshot(vendors, places, bookings, users)}]
    /\ UNCHANGED <<Tables, resp>>

\* places_res = supabase.table("places").select(...).execute()
PayoutsFetchPlaces ==
    /\ req.pc = "payouts: places"
    /\ req' = [req EXCEPT !.pc = "payouts: bookings", !.places = places]
    /\ UNCHANGED <<Tables, resp>>

\* bookings_res = ...execute(), and the rest of the handler
PayoutsFetchBookings ==
    /\ req.pc = "payouts: bookings"
    /\ resp' = [op |-> "payouts", status |-> 200, raised |-> {}, cause |-> "none",
                vendors |-> req.vendors, places |-> req.places, input |-> bookings,
                rows |-> get_payouts(req.vendors, req.places, bookings),
                now |-> clock, seen |-> req.seen]
    /\ req' = NoReq
    /\ UNCHANGED Tables

\* users_res = supabase.table("users").select("*").execute()
DistributionFetchUsers ==
    /\ req.pc = "idle"
    /\ req' = [NoReq EXCEPT !.pc = "distribution: bookings", !.users = users,
                            !.seen = {Snapshot(vendors, places, bookings, users)}]
    /\ UNCHANGED <<Tables, resp>>

\* bookings_res = ...execute(), and the rest of the handler
DistributionFetchBookings ==
    /\ req.pc = "distribution: bookings"
    /\ resp' = [op |-> "customer-distribution", status |-> 200, raised |-> {},
                cause |-> "none", users |-> req.users, input |-> bookings,
                rows |-> get_customer_distribution(req.users, bookings, clock),
                now |-> clock, seen |-> req.seen]
    /\ req' = NoReq
    /\ UNCHANGED Tables

InitSnapshots ==
    /\ clock = 24 * DaysFromCivil(2024, 3, 15) + 10
    /\ bookings = <<>>
    /\ vendors = <<>>
    /\ places = <<Place("p1", "Cafe", Num(30000))>>
    /\ users = <<>>
    /\ resp = NoResp
    /\ InitSide

NextSnapshots ==
    \/ WriteVendor
    \/ WriteBooking
    \/ WriteUser
    \/ PayoutsFetchVendors
    \/ PayoutsFetchPlaces
    \/ PayoutsFetchBookings
    \/ DistributionFetchUsers
    \/ DistributionFetchBookings

SpecSnapshots == InitSnapshots /\ [][NextSnapshots]_vars

\* C12: the response of GET /api/payouts and of GET
\* /api/users/customer-distribution is the aggregation of one state the
\* tables were in at some instant of the request.
C12_SingleSnapshot ==
    (resp.op \in {"payouts", "customer-distribution"} /\ resp.status = 200) =>
        \E st \in resp.seen :
            resp.rows = IF resp.op = "payouts"
                        THEN get_payouts(st.vendors, st.places, st.bookings)
                        ELSE get_customer_distribution(st.users, st.bookings, resp.now)

(***************************************************************************)
(* Place.normalize_hours, the validator of the hours field that runs       *)
(* whenever a Place is built: from a request body and from a stored row.   *)
(* A value is None, a list of records, a mapping from day to info (its     *)
(* items in insertion order) or something else; a record is the sequence   *)
(* of its <<key, value>> pairs; an info is a record or not a mapping.      *)
(***************************************************************************)
MaxDays == 2

HNone == [k |-> "none", items |-> <<>>]
HOther == [k |-> "other", items |-> <<>>]
HList(items) == [k |-> "list", items |-> items]
HDict(items) == [k |-> "dict", items |-> items]

InfoDict(pairs) == [k |-> "dict", pairs |-> pairs]
InfoOther == [k |-> "other", pairs |-> <<>>]

\* {"day": day, **info}: a key "day" of info overrides the mapping's key
Merged(day, pairs) ==
    IF \E i \in 1..Len(pairs) : pairs[i][1] = "day"
    THEN LET i == CHOOSE i \in 1..Len(pairs) : pairs[i][1] = "day"
         IN  <<pairs[i]>> \o SelectSeq(pairs, LAMBDA kv : kv[1] # "day")
    ELSE <<<<"day", day>>>> \o pairs

\* (mutant) a list is not taken as it is
normalize_hours_nolist(v) ==
    IF v.k = "dict"
    THEN HList([i \in 1..Len(v.items) |->
                  IF v.items[i].info.k = "dict"
                  THEN Merged(v.items[i].day, v.items[i].info.pairs)
                  ELSE << <<"day", v.items[i].day>>,
                          <<"open", "09:00">>, <<"close", "17:00">> >>])
    ELSE HNone

normalize_hours(v) ==
    IF v.k = "none" THEN HNone
    ELSE IF v.k = "list" THEN v
    ELSE IF v.k = "dict"
    THEN HList([i \in 1..Len(v.items) |->
                  IF v.items[i].info.k = "dict"
                  THEN Merged(v.items[i].day, v.items[i].info.pairs)
                  ELSE << <<"day", v.items[i].day>>,
                          <<"open", "09:00">>, <<"close", "17:00">> >>])
    ELSE HNone

DayNames == {"monday", "tuesday", "sunday"}

Infos ==
    { InfoDict(<< <<"open", "10:00">>, <<"close", "22:00">> >>),
      InfoDict(<< <<"close", "18:00">> >>),
      InfoDict(<< <<"open", "08:00">>, <<"day", "holiday">>, <<"close", "12:00">> >>),
      InfoDict(<<>>),
      InfoOther }

\* the keys of a mapping, in insertion order
DaySeqs ==
    UNION { { d \in [1..n -> DayNames] : \A i, j \in 1..n : d[i] = d[j] => i = j }
            : n \in 0..MaxDays }

Mappings ==
    UNION { { HDict([i \in 1..Len(d) |-> [day |-> d[i], info |-> f[i]]])
              : f \in [1..Len(d) -> Infos] }
            : d \in DaySeqs }

HoursInputs ==
    Mappings
    \cup { normalize_hours(m) : m \in Mappings }
    \cup { HList(<< << <<"note", "by appointment">> >> >>), HNone, HOther }

\* a Place built from a value v of hours
ValidateHours(v) ==
    /\ resp' = [op |-> "validate-hours", status |-> 200, input |-> v, origin |-> v,
                hours |-> normalize_hours(v)]
    /\ UNCHANGED <<side, clock, bookings, vendors, places, users>>

\* a Place built from the hours of the Place just built
RevalidateHours ==
    /\ resp.op = "validate-hours"
    /\ resp' = [op |-> "revalidate-hours", status |-> 200, input |-> resp.hours,
                origin |-> resp.origin, hours |-> normalize_hours(resp.hours)]
    /\ UNCHANGED <<side, clock, bookings, vendors, places, users>>

InitHours ==
    /\ clock = 24 * DaysFromCivil(2024, 3, 15) + 10
    /\ bookings = <<>>
    /\ vendors = <<>>
    /\ places = <<>>
    /\ users = <<>>
    /\ resp = NoResp
    /\ InitSide

NextHours ==
    \/ \E v \in HoursInputs : ValidateHours(v)
    \/ RevalidateHours

SpecHours == InitHours /\ [][NextHours]_vars

\* C20: normalizing what a normalization returned returns it unchanged, and
\* normalizing a list returns that list.
C20_Idempotent ==
    /\ resp.op = "revalidate-hours" =>
          resp.hours.k = resp.input.k /\ resp.hours.items = resp.input.items
    /\ (resp.op = "validate-hours" /\ resp.input.k = "list") =>
          resp.hours.k = "list" /\ resp.hours.items = resp.input.items

\* the second normalization of a mapping of two days
C20_Witness ==
    /\ resp.op = "revalidate-hours"
    /\ resp.origin.k = "dict"
    /\ Len(resp.origin.items) = 2
    /\ resp.input.k = "list"
    /\ Len(resp.hours.items) = 2

\* the values a record holds under a key
ValuesAt(record, key) == { record[i][2] : i \in { j \in 1..Len(record) : record[j][1] = key } }

\* C21: the normalizer maps None to None, a list to the same list, any other
\* shape that is not a mapping to None, and a mapping to a list with one
\* record per key, in the order of the keys, whose day is the key; a value
\* that is not a mapping gives the record {day, open "09:00", close "17:00"}.
C21_NormalizerContract ==
    resp.op = "validate-hours" =>
        LET v == resp.input
            h == resp.hours
        IN  /\ v.k = "none" => h = HNone
            /\ v.k = "list" => h = v
            /\ v.k = "other" => h = HNone
            /\ v.k = "dict" =>
                  /\ h.k = "list"
                  /\ Len(h.items) = Len(v.items)
                  /\ \A i \in 1..Len(v.items) :
                        /\ ValuesAt(h.items[i], "day") = {v.items[i].day}
                        /\ v.items[i].info.k # "dict" =>
                              h.items[i] = << <<"day", v.items[i].day>>,
                                              <<"open", "09:00">>, <<"close", "17:00">> >>

(***************************************************************************)
(* The handlers that look a place up by the id of the request, over stores *)
(* in which the place is there or not, with or without a banner file.      *)
(***************************************************************************)
\* the reviews table: none; a mean of 4.25, halfway between 4.2 and 4.3;
\* a mean of 4.666...; reviews without rating; reviews of two places
ReviewTables ==
    { <<>>,
      <<Review("p1", Num(4000)), Review("p1", Num(4500)), Review("p1", Null)>>,
      <<Review("p1", Num(4000)), Review("p1", Num(5000)), Review("p1", Num(5000))>>,
      <<Review("p1", Null), Review("p1", Null)>>,
      <<Review("p2", Num(3000)), Review("p1", Num(1000))>> }

InitLookups ==
    /\ clock = 24 * DaysFromCivil(2024, 3, 15) + 10
    /\ bookings = <<>>
    /\ vendors = <<>>
    /\ places \in { <<>>,
                    <<[PlaceRow("p1", "A", Null, Num(4000), "true")
                         EXCEPT !.review_count = Num(7)]>> }
    /\ users = <<>>
    /\ storage = {}
    /\ identities = {}
    /\ admins = <<>>
    /\ gallery_images = <<>>
    /\ reviews \in ReviewTables
    /\ req = NoReq
    /\ resp = NoResp

NextLookups ==
    \/ CreatePlace(Payload("B", Null, Null), "none", 0, 0)
    \/ \E id \in AllPlaceIds, fail \in {"none", "check"} :
          UpdatePlace(id, Payload("C", Null, Null), fail, 0, 0)
    \/ \E id \in AllPlaceIds, fail \in {"none", "read"} :
          TogglePlaceVisibility(id, fail)
    \/ \E id \in AllPlaceIds, fail \in {"none", "check", "storage"} :
          DeletePlace(id, fail)
    \/ \E id \in AllPlaceIds, fail \in {"none", "check"} :
          CreateGalleryImage(id, fail)
    \/ \E id \in AllPlaceIds, fail \in {"none", "select", "reviews"} :
          \E derived \in DerivedRatings(id) : GetPlaceById(id, fail, derived)
    \/ \E id \in AllPlaceIds : UploadBanner(id)

SpecLookups == InitLookups /\ [][NextLookups]_vars

\* the requests that name a place in their path
LookupOps == {"get-place", "update", "toggle-visibility", "delete", "create-gallery-image"}

\* the request's select of the place raised
LookupFailed == resp.fail \in {"select", "check", "read"}

\* C22: a get place by id, update place, toggle visibility, delete place or
\* create gallery image request whose place id is not in the places table
\* leaves the tables and the stored files as they were, and is answered 404
\* whenever its select of the place answers.
C22_AbsentPlace ==
    (resp.op \in LookupOps /\ ~ExistedBefore) =>
        /\ Store = resp.before
        /\ ~LookupFailed => resp.status = 404

\* a delete of a place that is not there while a banner file of that id is
C22_Witness ==
    /\ resp.op = "delete"
    /\ ~ExistedBefore
    /\ resp.status = 404
    /\ resp.id \in storage
    /\ Len(places) > 0

\* the row of the request's place as it was before the request
RowBefore == RowOf(resp.before.places, resp.id)

\* C23: a delete place whose removal of the banner file raises, and nothing
\* else does, is answered 200 and deletes the row of the place and no other;
\* a get place by id whose select of reviews raises is answered 200 with
\* the place and the rating and review_count stored on its row.
C23_BestEffort ==
    /\ (resp.op = "delete" /\ resp.fail = "storage" /\ ExistedBefore) =>
          /\ resp.status = 200
          /\ places = SelectSeq(resp.before.places, LAMBDA row : row.id # resp.id)
          /\ storage = resp.before.storage
    /\ (resp.op = "get-place" /\ resp.fail = "reviews" /\ ExistedBefore) =>
          /\ resp.status = 200
          /\ resp.place = RowBefore
          /\ Store = resp.before

\* a get place by id whose select of reviews raised, of a place with three
\* reviews: the stored rating 4.0 and review_count 7 are returned
C23_Witness ==
    /\ resp.op = "get-place"
    /\ resp.fail = "reviews"
    /\ resp.status = 200
    /\ Len(ReviewsOf(resp.id)) = 3
    /\ resp.place.rating = Num(4000)
    /\ resp.place.review_count = Num(7)

\* the reviews of the request's place, and those of them with a rating
Reviewed == SelectSeq(reviews, LAMBDA r : r.place_id = resp.id)
Rated == SelectSeq(Reviewed, LAMBDA r : r.rating # Null)

RECURSIVE TotalRating(_)
TotalRating(rs) == IF rs = <<>> THEN 0 ELSE Head(rs).rating.v + TotalRating(Tail(rs))

\* x is a multiple of step as near to total / n as any
NearestTo(x, total, n, step) ==
    /\ x % step = 0
    /\ 2 * Abs(n * x - total) <= n * step

\* C24: a get place by id of an existing place whose selects answer returns
\* the place with review_count the number of its reviews and rating the mean
\* of their ratings that are not null to one decimal, whatever the row
\* holds; without reviews review_count is 0 and rating null; the store is
\* not written.
C24_DerivedRating ==
    (resp.op = "get-place" /\ resp.fail = "none" /\ ExistedBefore) =>
        /\ resp.status = 200
        /\ resp.place.review_count = Num(Len(Reviewed))
        /\ Rated # <<>> =>
              /\ resp.place.rating.k = "num"
              /\ NearestTo(resp.place.rating.v, TotalRating(Rated), Len(Rated), 100)
        /\ Reviewed = <<>> => resp.place.rating = Null
        /\ resp.place = [RowBefore EXCEPT !.review_count = resp.place.review_count,
                                          !.rating = resp.place.rating]
        /\ Store = resp.before

\* a place stored with rating 4.0 and review_count 7 whose three reviews are
\* rated 4.0, 5.0 and 5.0 is returned with rating 4.7 and review_count 3
C24_Witness ==
    /\ resp.op = "get-place"
    /\ resp.fail = "none"
    /\ resp.status = 200
    /\ RowBefore.rating = Num(4000)
    /\ RowBefore.review_count = Num(7)
    /\ resp.place.rating = Num(4700)
    /\ resp.place.review_count = Num(3)

(***************************************************************************)
(* The list endpoints: GET /api/places, /api/customers, /api/reviews,      *)
(* /api/places/{place_id}/gallery-images and /api/administration/admins    *)
(* (GET /api/bookings and GET /api/payouts are above). fail = "select":    *)
(* the select of the request raises.                                       *)
(***************************************************************************)
ListResp(op, id, fail, rows) ==
    [op |-> op, status |-> IF fail = "select" THEN 500 ELSE 200, id |-> id, fail |-> fail,
     raised |-> IF fail = "select" THEN {"select"} ELSE {},
     cause |-> IF fail = "select" THEN "select" ELSE "none",
     rows |-> IF fail = "select" THEN <<>> ELSE rows]

\* (mutant) an empty table is answered 404
GetAllPlaces_notfound(fail) ==
    /\ resp' = IF places = <<>> /\ fail = "none"
               THEN [ListResp("places", NullId, fail, places) EXCEPT !.status = 404]
               ELSE ListResp("places", NullId, fail, places)
    /\ UNCHANGED <<side, clock, bookings, vendors, places, users>>

\* GET /api/places: [] for no data, else a Place of every row
GetAllPlaces(fail) ==
    /\ resp' = ListResp("places", NullId, fail, places)
    /\ UNCHANGED <<side, clock, bookings, vendors, places, users>>

\* GET /api/customers: [] for no data, else a Customer of every row
GetAllCustomers(fail) ==
    /\ resp' = ListResp("customers", NullId, fail, users)
    /\ UNCHANGED <<side, clock, bookings, vendors, places, users>>

Reverse(s) == [i \in 1..Len(s) |-> s[Len(s) + 1 - i]]

\* GET /api/reviews: the rows by created_at, the latest first (reviews holds
\* them in the order of their creation), rating as a float or None; float()
\* of a rating that is not a number raises
GetAllReviews(fail) ==
    /\ resp' = IF fail = "none" /\ \E i \in 1..Len(reviews) : reviews[i].rating.k = "text"
               THEN [ListResp("reviews", NullId, fail, <<>>) EXCEPT !.status = 500]
               ELSE ListResp("reviews", NullId, fail, Reverse(reviews))
    /\ UNCHANGED <<side, clock, bookings, vendors, places, users>>

\* GET /api/places/{place_id}/gallery-images: the images of the place by
\* created_at (gallery_images holds them in the order of their creation)
GetGalleryImages(place_id, fail) ==
    /\ resp' = ListResp("gallery-images", place_id, fail,
                        SelectSeq(gallery_images, LAMBDA g : g.place_id = place_id))
    /\ UNCHANGED <<side, clock, bookings, vendors, places, users>>

\* admins.role of the row of an e-mail. signup does not write the column:
\* the row of an account signed up here has the role the table gives it.
RoleOf(email) ==
    IF email = "v@x" THEN "Viewer"
    ELSE IF email = "s@x" THEN " Super Admin"
    ELSE "admin"

\* role.lower().strip()
LowerStrip(role) ==
    IF role = "Viewer" THEN "viewer"
    ELSE IF role = " Super Admin" THEN "super admin"
    ELSE role

_ADMIN_ROLES ==
    {"admin", "super_admin", "super admin", "administrator", "superadmin", "super-admin"}

_is_admin_role(role) == role # "" /\ LowerStrip(role) \in _ADMIN_ROLES

\* GET /api/administration/admins: the rows whose role is an admin role
ListAdministrationAdmins(fail) ==
    /\ resp' = ListResp("admins", NullId, fail,
                        SelectSeq(admins, LAMBDA a : _is_admin_role(RoleOf(a))))
    /\ UNCHANGED <<side, clock, bookings, vendors, places, users>>

\* rows of admins inserted by other clients
InsertAdmin(email) ==
    /\ \A i \in 1..Len(admins) : admins[i] # email
    /\ admins' = Append(admins, email)
    /\ resp' = NoResp
    /\ UNCHANGED <<req, storage, identities, gallery_images, reviews,
                   clock, bookings, vendors, places, users>>

InitLists ==
    /\ clock = 24 * DaysFromCivil(2024, 3, 15) + 10
    /\ bookings \in { <<>>, <<Booking("p1", "u1", Null, Num(10000), NullTs, NullTs)>> }
    /\ vendors \in { <<>>, <<Vendor("v1", "p1", Num(2000), "Ann", "Acme")>> }
    /\ places = <<>>
    /\ users \in { <<>>, <<User("u1", Iso(clock - 24))>> }
    /\ storage = {}
    /\ identities = {}
    /\ admins = <<>>
    /\ gallery_images = <<>>
    /\ reviews \in { <<>>, <<Review("p1", Num(4000)), Review("p2", Null)>> }
    /\ req = NoReq
    /\ resp = NoResp

NextLists ==
    \/ CreatePlace(Payload("B", Null, Null), "none", 0, 0)
    \/ \E id \in AllPlaceIds : CreateGalleryImage(id, "none")
    \/ Signup("a@x", "none")
    \/ \E email \in {"v@x", "s@x"} : InsertAdmin(email)
    \/ \E fail \in {"none", "select"} : GetAllPlaces(fail)
    \/ \E fail \in {"none", "select"} : GetAllCustomers(fail)
    \/ \E fail \in {"none", "ordered", "joined", "all"} : GetAllBookings(fail)
    \/ \E fail \in {"none", "select"} : GetAllReviews(fail)
    \/ \E id \in AllPlaceIds, fail \in {"none", "select"} : GetGalleryImages(id, fail)
    \/ \E fail \in {"none", "select"} : ListAdministrationAdmins(fail)
    \/ \E fetch \in FetchOutcomes : GetPayouts(fetch)

SpecLists == InitLists /\ [][NextLists]_vars

\* the collection behind the list of the request is empty
BackingEmpty ==
    \/ resp.op = "places" /\ places = <<>>
    \/ resp.op = "customers" /\ users = <<>>
    \/ resp.op = "bookings" /\ bookings = <<>>
    \/ resp.op = "reviews" /\ reviews = <<>>
    \/ resp.op = "gallery-images"
          /\ \A i \in 1..Len(gallery_images) : gallery_images[i].place_id # resp.id
    \/ resp.op = "admins" /\ admins = <<>>
    \/ resp.op = "payouts" /\ vendors = <<>> /\ bookings = <<>>

\* a select of the request raised and reached the handler's except clause
ListFailed ==
    \/ resp.op \in {"places", "customers", "reviews", "gallery-images", "admins"}
          /\ resp.fail = "select"
    \/ resp.op = "bookings" /\ resp.fail = "all"
    \/ resp.op = "payouts" /\ "fetch" \in resp.raised

\* C25: a list request (places, customers, bookings, reviews, gallery images
\* of a place, administration admins, payouts) over an empty collection
\* whose select answers is answered 200 with the empty list.
C25_EmptyList ==
    (BackingEmpty /\ ~ListFailed) =>
        /\ resp.status = 200
        /\ IF resp.op = "bookings" THEN resp.count = 0 ELSE resp.rows = <<>>

\* the gallery images of a place without images, while another place has one
C25_Witness ==
    /\ resp.op = "gallery-images"
    /\ resp.fail = "none"
    /\ gallery_images # <<>>
    /\ resp.status = 200
    /\ resp.rows = <<>>

(***************************************************************************)
(* The aggregation endpoints, GET /api/bookings/counts-by-user among them, *)
(* with other clients writing to the tables between the requests.          *)
(***************************************************************************)
\* counts: user id -> number of bookings, for the user ids that are truthy
get_booking_counts_by_user(rows) ==
    [uid \in { rows[i].user_id : i \in 1..Len(rows) } \ {NullId} |-> BookingCount(rows, uid)]

\* (mutant) the request drops the bookings it does not count
GetBookingCountsByUser_purging(fail) ==
    /\ resp' = [op |-> "counts-by-user", status |-> IF fail = "select" THEN 500 ELSE 200,
                fail |-> fail, now |-> clock, period |-> "none",
                raised |-> IF fail = "select" THEN {"select"} ELSE {},
                cause |-> IF fail = "select" THEN "select" ELSE "none",
                rows |-> IF fail = "select" THEN <<>>
                         ELSE get_booking_counts_by_user(bookings)]
    /\ bookings' = SelectSeq(bookings, LAMBDA b : b.user_id # NullId)
    /\ UNCHANGED <<side, clock, vendors, places, users>>

\* GET /api/bookings/counts-by-user
GetBookingCountsByUser(fail) ==
    /\ resp' = [op |-> "counts-by-user", status |-> IF fail = "select" THEN 500 ELSE 200,
                fail |-> fail, now |-> clock, period |-> "none",
                raised |-> IF fail = "select" THEN {"select"} ELSE {},
                cause |-> IF fail = "select" THEN "select" ELSE "none",
                rows |-> IF fail = "select" THEN <<>>
                         ELSE get_booking_counts_by_user(bookings)]
    /\ UNCHANGED <<side, clock, bookings, vendors, places, users>>

InitAggregations ==
    /\ clock \in ServiceTimes
    /\ bookings = <<>>
    /\ vendors = <<>>
    /\ places = <<>>
    /\ users = <<>>
    /\ resp = NoResp
    /\ InitSide

NextAggregations ==
    \/ WriteVendor
    \/ WriteBooking
    \/ WriteUser
    \/ InsertSalesBooking(Booking(NullId, NullId, Num(5000), Null, Iso(clock - 24), NullTs))
    \/ CreatePlace(Payload("B", Null, Num(30000)), "none", 0, 30000)
    \/ \E period \in {"daily", "monthly"}, fetch \in FetchOutcomes :
          GetBookingsSalesAnalytics(period, fetch)
    \/ \E fetch \in FetchOutcomes : GetPayouts(fetch)
    \/ \E fetch \in {"ok", "error"} : GetCustomerDistribution(fetch)
    \/ \E fail \in {"none", "select"} : GetBookingCountsByUser(fail)

SpecAggregations == InitAggregations /\ [][NextAggregations]_vars

AggregationOps == {"sales-analytics", "payouts", "customer-distribution", "counts-by-user"}

\* the response of an aggregation over the tables as they are
Aggregated(op, period) ==
    IF op = "sales-analytics" THEN get_bookings_sales_analytics(period, clock, bookings)
    ELSE IF op = "payouts" THEN get_payouts(vendors, places, bookings)
    ELSE IF op = "customer-distribution" THEN get_customer_distribution(users, bookings, clock)
    ELSE get_booking_counts_by_user(bookings)

\* an aggregation request all of whose selects answered returns the
\* aggregation of the tables at the service time, whatever came before
DeterminedByStore ==
    (resp.op \in AggregationOps /\ resp.raised = {}) =>
        /\ resp.status = 200
        /\ resp.rows = Aggregated(resp.op, IF resp.op = "sales-analytics"
                                           THEN resp.period ELSE "none")

C28_NoUserIs400 ==
    (resp.op = "signup" /\ resp.fail = "nouser" /\ resp.id \notin resp.before.identities) =>
        /\ resp.status = 400
        /\ resp.detail = "Failed to create user account"
        /\ admins = resp.before.admins

(***************************************************************************)
(* PATCH /api/places/{id}/toggle-visibility call by call, with several     *)
(* requests for the same place in flight. Here req holds, for every        *)
(* request, the call it is at and the value its select returned, and the   *)
(* value of visible before the first request.                              *)
(***************************************************************************)
MaxRequests == 3

Requests == 1..MaxRequests

\* the select of visible: current_visible
ToggleRead(r) ==
    /\ req.at[r].pc = "select"
    /\ req' = [req EXCEPT !.at[r] = [pc |-> "update",
                                     current_visible |-> RowOf(places, "p1").visible]]
    /\ UNCHANGED <<Tables, resp>>

\* update({"visible": new_visible}).eq("id", place_id)
ToggleWrite(r) ==
    /\ req.at[r].pc = "update"
    /\ places' = [i \in 1..Len(places) |->
                    IF places[i].id = "p1"
                    THEN [places[i] EXCEPT !.visible = Toggled(req.at[r].current_visible)]
                    ELSE places[i]]
    /\ req' = [req EXCEPT !.at[r].pc = "refetch"]
    /\ resp' = NoResp
    /\ UNCHANGED <<storage, identities, admins, gallery_images, reviews,
                   clock, bookings, vendors, users>>

\* the select of the whole row, and the response
ToggleRefetch(r) ==
    /\ req.at[r].pc = "refetch"
    /\ req' = [req EXCEPT !.at[r].pc = "done"]
    /\ resp' = [op |-> "toggle-visibility", status |-> 200, id |-> "p1",
                was |-> req.at[r].current_visible, place |-> RowOf(places, "p1")]
    /\ UNCHANGED Tables

InitToggles ==
    /\ clock = 24 * DaysFromCivil(2024, 3, 15) + 10
    /\ bookings = <<>>
    /\ vendors = <<>>
    /\ \E v \in {"true", "false"} :
          /\ places = <<PlaceRow("p1", "A", Null, Null, v), PlaceRow("p2", "B", Null, Null, "true")>>
          /\ req = [initial |-> v,
                    at |-> [r \in Requests |-> [pc |-> "select", current_visible |-> "null"]]]
    /\ users = <<>>
    /\ storage = {}
    /\ identities = {}
    /\ admins = <<>>
    /\ gallery_images = <<>>
    /\ reviews = <<>>
    /\ resp = NoResp

NextToggles ==
    \/ \E r \in Requests : ToggleRead(r)
    \/ \E r \in Requests : ToggleWrite(r)
    \/ \E r \in Requests : ToggleRefetch(r)

SpecToggles == InitToggles /\ [][NextToggles]_vars

\* the requests that have been answered
Completed == { r \in Requests : req.at[r].pc = "done" }

\* no request is between its select and its response
Quiescent == \A r \in Requests : req.at[r].pc \in {"select", "done"}

\* C27: whenever every toggle request of the place that has begun has been
\* answered, k of them in all, the stored visible is the initial value for
\* an even k and its negation for an odd k, however their calls interleaved.
C27_OneFlipPerRequest ==
    Quiescent =>
        RowOf(places, "p1").visible =
            IF Cardinality(Completed) % 2 = 0 THEN req.initial ELSE Flipped(req.initial)

\* no booking of the request's input is dated in a unit of the window
NoneInWindow == \A n \in 1..Len(resp.rows) : InUnit(n) = {}

\* C29: the list returned for bookings none of which is dated in a unit of
\* the window is the list returned for no bookings at the same period and
\* service time: as many rows, the same labels in the same order, sales 0
\* and count 0.
C29_EmptyPathAgrees ==
    (SalesOk /\ resp.input # <<>> /\ NoneInWindow) =>
        LET empty == get_bookings_sales_analytics(resp.period, resp.now, <<>>)
        IN  /\ Len(resp.rows) = Len(empty)
            /\ \A n \in 1..Len(resp.rows) :
                  /\ resp.rows[n].label = empty[n].label
                  /\ resp.rows[n].sales = empty[n].sales
                  /\ resp.rows[n].count = empty[n].count

\* weekly at 2025-01-01 with two bookings, one of them of a year before:
\* twelve rows ending with W52 and W1, all 0
C29_Witness ==
    /\ SalesOk
    /\ resp.period = "weekly"
    /\ resp.now = 24 * DaysFromCivil(2025, 1, 1)
    /\ Len(resp.input) = 2
    /\ \E i \in 1..2 : RowParses(i) /\ RowDay(i) = Today - MONTHLY_BACK_DAYS
    /\ NoneInWindow
    /\ Len(resp.rows) = 12
    /\ resp.rows[12].label = <<1>>
    /\ resp.rows[11].label = <<52>>

(***************************************************************************)
(* PUT /api/places/{id} under bodies that carry an id, timestamps and      *)
(* visible besides the name, the rating and the price.                     *)
(***************************************************************************)
UpdatePayloads ==
    { PayloadOf("p2", "B", Null, Null, "null", NullTs, NullTs),
      PayloadOf(NullId, "", Num(4250), Null, "null", Iso(clock), Iso(clock)),
      PayloadOf(NullId, "", Null, Num(12346), "true", NullTs, NullTs) }

StoredPlace(id, name) ==
    [PlaceRow(id, name, Num(1000), Num(4000), "false")
       EXCEPT !.review_count = Num(7),
              !.created_at = Iso(clock - 48), !.updated_at = Iso(clock - 24)]

InitUpdates ==
    /\ clock = 24 * DaysFromCivil(2024, 3, 15) + 10
    /\ bookings = <<>>
    /\ vendors = <<>>
    /\ places \in { <<StoredPlace("p1", "A")>>,
                    <<StoredPlace("p1", "A"), StoredPlace("p2", "A")>> }
    /\ users = <<>>
    /\ resp = NoResp
    /\ InitSide

NextUpdates ==
    \/ \E id \in AllPlaceIds, payload \in UpdatePayloads :
          \E r \in RatingRounds(payload), a \in PriceRounds(payload) :
             \E fail \in {"none", "check", "update", "refetch"} :
                UpdatePlace(id, payload, fail, r, a)
    \/ \E id \in AllPlaceIds : DeletePlace(id, "none")

SpecUpdates == InitUpdates /\ [][NextUpdates]_vars

\* row new is row old but for the fields the body carries
OnlyPayloadFields(old, new, payload) ==
    /\ new.id = old.id
    /\ new.created_at = old.created_at
    /\ new.updated_at = old.updated_at
    /\ new.review_count = old.review_count
    /\ payload.name = "" => new.name = old.name
    /\ payload.rating = Null => new.rating = old.rating
    /\ payload.avg_price = Null => new.avg_price = old.avg_price
    /\ payload.visible = "null" => new.visible = old.visible

\* C30: after an update place request every row of places is there as
\* before; the rows of other places are unchanged; the row of the place has
\* its id, created_at and updated_at, and every field the body leaves out or
\* gives as null, as before; nothing else in the store changes.
C30_OnlyPayloadFields ==
    resp.op = "update" =>
        /\ Len(places) = Len(resp.before.places)
        /\ \A i \in 1..Len(places) :
              IF resp.before.places[i].id = resp.id
              THEN OnlyPayloadFields(resp.before.places[i], places[i], resp.payload)
              ELSE places[i] = resp.before.places[i]
        /\ [Store EXCEPT !.places = <<>>] = [resp.before EXCEPT !.places = <<>>]

\* an update of p1 whose body says id p2 and name B: p1 is renamed and keeps
\* its id, rating, price, visible and timestamps; p2 is as it was
C30_Witness ==
    /\ resp.op = "update"
    /\ resp.status = 200
    /\ resp.id = "p1"
    /\ resp.payload.id = "p2"
    /\ Len(places) = 2
    /\ resp.before.places[1].name = "A"
    /\ places[1] = [resp.before.places[1] EXCEPT !.name = "B"]
    /\ places[2] = resp.before.places[2]

=============================================================================
